---------------------------- MODULE Spec2Model ----------------------------
(***************************************************************************)
(* A model of the VideoBox editors:                                        *)
(*   - the three-tab editor  src/src/components/CloudinaryVideoEditor.tsx  *)
(*   - the two-tab editor    src/unnamed/part_000                          *)
(*   - the upload helper     src/src/components/CloudinaryUploadHelper.tsx *)
(*   - the debug library     src/supabase/functions/cloudinary-check-      *)
(*                           delete/index.ts (lib/cloudinaryDebug)         *)
(*                                                                         *)
(* Strings that the code takes apart (URLs) are records of their parts, so *)
(* that split(), includes() and template concatenation are operators on    *)
(* the parts.  A URL                                                       *)
(*     https://<host>/<cloud>/video/upload/<actions>/<version>/<file>?<q>  *)
(* is [host, cloud, upload, actions, version, file, query]; host is the    *)
(* sequence of its dot-separated labels, actions the sequence of           *)
(* transformation path segments, query the sequence of &-separated         *)
(* parameters.  Times are whole seconds.                                   *)
(***************************************************************************)
EXTENDS Integers, Sequences, FiniteSets, Bags, TLC

VARIABLES
  \* ---- three-tab editor: React state (CloudinaryVideoEditor.tsx:116-170)
  videoFile, isUploading, uploadProgress, cloudinaryUrl, cloudinaryPublicId,
  isPlaying, videoDuration, uploadError, debugMode, videoLoadAttempts,
  videoLoadError, activeTab, cachedVideoUrl, hasSetTabRef, transformations,
  \* ---- three-tab editor: props, DOM and event loop
  props,        \* [initialVideoUrl, initialPublicId, cloudName, apiKey]
  video,        \* the edit tab's <video> element behind videoRef
  timers,       \* bag of pending setTimeout callbacks with what they captured
  xhr,          \* the upload request in flight
  probes,       \* bag of pending checkCloudinaryUrl promises
  testVideos,   \* the test <video> elements handleDrop created, in order
  trace,        \* the last step: what it was, the URLs it loaded into the
                \* element and handed to window.open, and how many
                \* automatic retries ran in a row
  budget,       \* how many more edits, uploads, other user steps and
                \* playback errors the run takes
  \* ---- two-tab editor (part_000)
  ttProps, ttTransformations, ttActiveTab, ttVideoUrl, ttTrace,
  \* ---- upload helper (CloudinaryUploadHelper.tsx)
  hVideoFile, hIsUploading, hUploadProgress, hUploadError,
  hCloudName,   \* import.meta.env.VITE_CLOUDINARY_CLOUD_NAME
  hRequests,    \* the upload request in flight and the responses whose 1 s
                \* timer is pending
  hCalls,       \* the last step and the callbacks of the parent it called
  hBudget,      \* how many more uploads and other user steps the run takes
  \* ---- inputs and result of the pure functions
  fnIn, fnOut

editorVars == <<videoFile, isUploading, uploadProgress, cloudinaryUrl,
                cloudinaryPublicId, isPlaying, videoDuration, uploadError,
                debugMode, videoLoadAttempts, videoLoadError, activeTab,
                cachedVideoUrl, hasSetTabRef, transformations, props, video,
                timers, xhr, probes, testVideos, trace, budget>>
twoTabVars == <<ttProps, ttTransformations, ttActiveTab, ttVideoUrl, ttTrace>>
helperVars == <<hVideoFile, hIsUploading, hUploadProgress, hUploadError,
                hCloudName, hRequests, hCalls, hBudget>>
fnVars     == <<fnIn, fnOut>>
vars       == <<editorVars, twoTabVars, helperVars, fnVars>>

-----------------------------------------------------------------------------
(* Values *)

\* JavaScript null / undefined for a string-typed value; "" is falsy as well.
Null == "<null>"
Truthy(s) == s # Null /\ s # ""

\* The element of a one-element set: The({F(x) : x \in {e}}) is F(e), with
\* e worked out once.
The(S) == CHOOSE x \in S : TRUE

\* JavaScript null for a URL-typed value.
NoUrl == [null |-> TRUE]
HasUrl(u) == u # NoUrl

\* u1 || u2 || u3 on URL values.
OrUrl(u1, u2) == IF HasUrl(u1) THEN u1 ELSE u2

\* stableTimestampRef.current, fixed at construction.
Stamp == "_t=STAMP"
Retry == "_retry=STAMP"

ResHost == <<"res", "cloudinary", "com">>

Url(host, cloud, actions, version, file, query) ==
  [host |-> host, cloud |-> cloud, upload |-> TRUE, actions |-> actions,
   version |-> version, file |-> file, query |-> query]

\* url.includes("res.cloudinary.com")
IncludesResHost(u) == HasUrl(u) /\ u.host = ResHost

\* url.split("?")[0]
StripQuery(u) == [u EXCEPT !.query = <<>>]

\* `${url}?${q}`: a template that appends a query string to a URL text.  On a
\* URL that has a query already the text after the first "?" is its query.
WithQuery(u, q) == [u EXCEPT !.query = Append(@, q)]

\* color.replace("#", "")
StripHash(c) ==
  CASE c = "#ffffff" -> "ffffff"
    [] c = "#ff0000" -> "ff0000"
    [] c = "#000000" -> "000000"
    [] OTHER -> c


-----------------------------------------------------------------------------
(* The three-tab editor's URL builder, CloudinaryVideoEditor.tsx:182-313.   *)
(* cld.video(id) collects the actions in the order they are applied and     *)
(* toURL() writes one path segment per action, in that order.               *)

DefaultTransformations ==
  [border |-> [width |-> 4, color |-> "#ffffff", radius |-> 0],
   resize |-> [width |-> 1920, height |-> 1080, mode |-> "fill"],
   adjust |-> [brightness |-> 0, contrast |-> 0, saturation |-> 0,
               sepia |-> 0, grayscale |-> FALSE],
   text   |-> [enabled |-> FALSE, content |-> "Sample Text",
               position |-> "south", color |-> "#ffffff", size |-> 40,
               fontFamily |-> "Arial"],
   trim   |-> [enabled |-> FALSE, startSeconds |-> 0, endSeconds |-> 10]]

Max(a, b) == IF a >= b THEN a ELSE b
Min(a, b) == IF a <= b THEN a ELSE b

BorderAction(t) ==
  [op |-> "bo", width |-> t.border.width, style |-> "solid",
   color |-> StripHash(t.border.color)]
RadiusAction(t) == [op |-> "r", radius |-> t.border.radius]
ResizeAction(t, crop) ==
  [op |-> crop, width |-> t.resize.width, height |-> t.resize.height]
LevelAction(op, level) == [op |-> op, level |-> level]
GrayscaleAction == [op |-> "e_grayscale"]
Compass ==
  {"north", "south", "east", "west", "center", "north_east", "north_west",
   "south_east", "south_west"}
TextAction(t) ==
  [op |-> "l_text", font |-> t.text.fontFamily, size |-> t.text.size,
   weight |-> "bold", color |-> StripHash(t.text.color),
   content |-> t.text.content,
   gravity |-> IF t.text.position \in Compass THEN t.text.position
               ELSE "none"]
TrimAction(start, end) == [op |-> "trim", so |-> start, eo |-> end]
FormatAction == [op |-> "f", format |-> "mp4"]
QualityAction == [op |-> "q", level |-> "auto"]

\* lines 189-199
ApplyBorder(t, acts) ==
  acts
  \o (IF t.border.width > 0 THEN <<BorderAction(t)>> ELSE <<>>)
  \o (IF t.border.radius > 0 THEN <<RadiusAction(t)>> ELSE <<>>)

\* lines 201-224
ApplyResize(t, acts) ==
  CASE t.resize.mode = "fill"  -> Append(acts, ResizeAction(t, "c_fill"))
    [] t.resize.mode = "scale" -> Append(acts, ResizeAction(t, "c_scale"))
    [] t.resize.mode = "crop"  -> Append(acts, ResizeAction(t, "c_crop"))
    [] OTHER -> acts

\* lines 226-241
ApplyAdjust(t, acts) ==
  acts
  \o (IF t.adjust.brightness # 0
      THEN <<LevelAction("e_brightness", t.adjust.brightness)>> ELSE <<>>)
  \o (IF t.adjust.contrast # 0
      THEN <<LevelAction("e_contrast", t.adjust.contrast)>> ELSE <<>>)
  \o (IF t.adjust.saturation # 0
      THEN <<LevelAction("e_saturation", t.adjust.saturation)>> ELSE <<>>)
  \o (IF t.adjust.sepia # 0
      THEN <<LevelAction("e_sepia", t.adjust.sepia)>> ELSE <<>>)
  \o (IF t.adjust.grayscale THEN <<GrayscaleAction>> ELSE <<>>)

\* lines 243-286
ApplyText(t, acts) ==
  IF t.text.enabled /\ t.text.content # ""
  THEN Append(acts, TextAction(t))
  ELSE acts

\* Variant: the trim bounds taken as the sliders give them, not clamped to
\* the video.
ApplyTrimUnclamped(t, duration, acts) ==
  IF /\ t.trim.enabled /\ duration > 0
     /\ t.trim.startSeconds < t.trim.endSeconds
  THEN Append(acts, TrimAction(t.trim.startSeconds, t.trim.endSeconds))
  ELSE acts

\* lines 288-295
ApplyTrim(t, duration, acts) ==
  IF /\ t.trim.enabled /\ duration > 0
     /\ Max(0, t.trim.startSeconds) < Min(duration, t.trim.endSeconds)
  THEN Append(acts, TrimAction(Max(0, t.trim.startSeconds),
                               Min(duration, t.trim.endSeconds)))
  ELSE acts

\* lines 297-301
ApplyDelivery(acts) == Append(Append(acts, FormatAction), QualityAction)

\* Variant: the trim applied before the text overlay.
BuildActionsTrimFirst(t, duration) ==
  ApplyDelivery(
    ApplyText(t,
      ApplyTrim(t, duration,
        ApplyAdjust(t, ApplyResize(t, ApplyBorder(t, <<>>))))))

\* The actions of the built URL, in order.
BuildActions(t, duration) ==
  ApplyDelivery(
    ApplyTrim(t, duration,
      ApplyText(t, ApplyAdjust(t, ApplyResize(t, ApplyBorder(t, <<>>))))))

\* getTransformedVideoUrl of a render whose state is s.
getTransformedVideoUrl(s) ==
  IF ~Truthy(s.cloudinaryPublicId) THEN s.cloudinaryUrl
  ELSE Url(ResHost, s.cloudName,
           BuildActions(s.transformations, s.videoDuration), "",
           s.cloudinaryPublicId, <<"_a=SDK", Stamp>>)

\* Variant: no direct-playback branch, the built URL for every host.
transformedVideoUrlBuilt(s) ==
  IF ~Truthy(s.cloudinaryPublicId) \/ ~HasUrl(s.cloudinaryUrl)
  THEN s.cloudinaryUrl
  ELSE getTransformedVideoUrl(s)

\* transformedVideoUrl (useMemo), lines 316-326.
transformedVideoUrl(s) ==
  IF ~Truthy(s.cloudinaryPublicId) \/ ~HasUrl(s.cloudinaryUrl)
  THEN s.cloudinaryUrl
  ELSE IF IncludesResHost(s.cloudinaryUrl)
       THEN WithQuery(StripQuery(s.cloudinaryUrl), Stamp)
       ELSE getTransformedVideoUrl(s)

\* borderStyle (useMemo), lines 689-700.
borderStyle(s) ==
  [padding |-> s.transformations.border.width,
   backgroundColor |-> s.transformations.border.color,
   borderRadius |-> s.transformations.border.radius]

-----------------------------------------------------------------------------
(* The two-tab editor's URL builder, part_000:55-105. *)

TtDefaultTransformations ==
  [border |-> [width |-> 5, color |-> "white", style |-> "solid"],
   adjustments |-> [brightness |-> 0, contrast |-> 0, saturation |-> 0,
                    sepia |-> 0]]

\* Variant: a border of width 0 counts as a border.
TtHasBorderFromZero(t) == t.border.width >= 0

TtHasBorder(t) == t.border.width > 0
TtHasAdjustments(t) ==
  \/ t.adjustments.brightness # 0
  \/ t.adjustments.contrast # 0
  \/ t.adjustments.saturation # 0
  \/ t.adjustments.sepia # 0

TtBorderPart(t) ==
  [op |-> "bo", width |-> t.border.width, style |-> t.border.style,
   color |-> StripHash(t.border.color)]

\* Variant: the contrast part pushed before the brightness part.
TtPartsContrastFirst(t) ==
  (IF TtHasBorder(t) THEN <<TtBorderPart(t)>> ELSE <<>>)
  \o (IF t.adjustments.contrast # 0
      THEN <<LevelAction("e_contrast", t.adjustments.contrast)>> ELSE <<>>)
  \o (IF t.adjustments.brightness # 0
      THEN <<LevelAction("e_brightness", t.adjustments.brightness)>>
      ELSE <<>>)
  \o (IF t.adjustments.saturation # 0
      THEN <<LevelAction("e_saturation", t.adjustments.saturation)>>
      ELSE <<>>)
  \o (IF t.adjustments.sepia # 0
      THEN <<LevelAction("e_sepia", t.adjustments.sepia)>> ELSE <<>>)

\* lines 69-99: transformationParts, pushed in this order
TtParts(t) ==
  (IF TtHasBorder(t) THEN <<TtBorderPart(t)>> ELSE <<>>)
  \o (IF TtHasAdjustments(t) /\ t.adjustments.brightness # 0
      THEN <<LevelAction("e_brightness", t.adjustments.brightness)>>
      ELSE <<>>)
  \o (IF TtHasAdjustments(t) /\ t.adjustments.contrast # 0
      THEN <<LevelAction("e_contrast", t.adjustments.contrast)>> ELSE <<>>)
  \o (IF TtHasAdjustments(t) /\ t.adjustments.saturation # 0
      THEN <<LevelAction("e_saturation", t.adjustments.saturation)>>
      ELSE <<>>)
  \o (IF TtHasAdjustments(t) /\ t.adjustments.sepia # 0
      THEN <<LevelAction("e_sepia", t.adjustments.sepia)>> ELSE <<>>)

\* transformedVideoUrl (useMemo) of the two-tab editor, lines 55-105.
TtTransformedVideoUrl(p, t) ==
  IF ~Truthy(p.cloudinaryPublicId) \/ ~Truthy(p.cloudName)
  THEN p.initialVideoUrl
  ELSE IF ~TtHasBorder(t) /\ ~TtHasAdjustments(t)
       THEN p.initialVideoUrl
       ELSE Url(ResHost, p.cloudName, TtParts(t), "", p.cloudinaryPublicId,
                <<>>)

-----------------------------------------------------------------------------
(* The three-tab editor as a React component.                               *)
(*                                                                          *)
(* A step of the model is one task of the browser's event loop: an event    *)
(* handler, a timer callback or a promise reaction, followed by the render  *)
(* it causes and by the effects of that render, which may set state and     *)
(* render again, until no state changes.  The world w of a step holds the   *)
(* state being rendered, the refs, the DOM and the timers.                  *)

\* The state of the world as one record.
Cur ==
  [videoFile |-> videoFile, isUploading |-> isUploading,
   uploadProgress |-> uploadProgress, cloudinaryUrl |-> cloudinaryUrl,
   cloudinaryPublicId |-> cloudinaryPublicId, isPlaying |-> isPlaying,
   videoDuration |-> videoDuration, uploadError |-> uploadError,
   debugMode |-> debugMode, videoLoadAttempts |-> videoLoadAttempts,
   videoLoadError |-> videoLoadError, activeTab |-> activeTab,
   cachedVideoUrl |-> cachedVideoUrl, hasSetTabRef |-> hasSetTabRef,
   transformations |-> transformations, cloudName |-> props.cloudName,
   video |-> video, timers |-> timers, xhr |-> xhr, probes |-> probes,
   testVideos |-> testVideos, budget |-> budget, streak |-> trace.streak, loads |-> <<>>,
   opened |-> NoUrl]

\* What useState holds: a render happens when any of it changes.
ReactState(w) ==
  <<w.videoFile, w.isUploading, w.uploadProgress, w.cloudinaryUrl,
    w.cloudinaryPublicId, w.isPlaying, w.videoDuration, w.uploadError,
    w.debugMode, w.videoLoadAttempts, w.videoLoadError, w.activeTab,
    w.cachedVideoUrl, w.transformations>>

\* The <video> of the edit tab.  TabsContent renders only the active tab, so
\* the element exists (videoRef.current is not null) while the edit tab is
\* the active one; phase is "empty" (no source), "loading" (readyState 0,
\* fetching), "ready" (metadata loaded) or "failed" (error fired).
NoVideo ==
  [mounted |-> FALSE, src |-> NoUrl, phase |-> "empty", paused |-> TRUE,
   playPending |-> FALSE]

\* A fresh element with the src attribute of the JSX; preload="metadata"
\* starts the fetch.
NewVideo(src) ==
  [mounted |-> TRUE, src |-> src,
   phase |-> IF HasUrl(src) THEN "loading" ELSE "empty", paused |-> TRUE,
   playPending |-> FALSE]

\* videoRef.current.src = url; videoRef.current.load(): the media element
\* load algorithm aborts what runs, pauses, rejects pending play promises
\* and starts the fetch of url.
LoadVideo(w, url) ==
  [w EXCEPT !.video = NewVideo(url), !.loads = Append(@, url)]

\* The src prop of the edit tab's <video>, lines 943-948.
JsxSrc(w) ==
  OrUrl(w.cloudinaryUrl, OrUrl(w.cachedVideoUrl, transformedVideoUrl(w)))

\* React's commit of the render of w after the render of prev: the element
\* is created when the edit tab appears or its key (line 1057) changes,
\* removed when the tab goes, and gets its src attribute rewritten when the
\* prop differs from the last render's (which starts a load).
DomCommit(prev, w) ==
  IF w.activeTab # "edit" THEN [w EXCEPT !.video = NoVideo]
  ELSE IF prev.activeTab # "edit"
          \/ prev.cloudinaryPublicId # w.cloudinaryPublicId
       THEN [w EXCEPT !.video = NewVideo(JsxSrc(w))]
       ELSE IF JsxSrc(prev) # JsxSrc(w)
            THEN IF HasUrl(JsxSrc(w)) THEN LoadVideo(w, JsxSrc(w))
                 ELSE [w EXCEPT !.video.src = NoUrl]
            ELSE w

\* Dependencies of the effects: what differs between the last render and
\* this one.
tChanged(prev, r) == transformedVideoUrl(prev) # transformedVideoUrl(r)
tabChanged(prev, r) == prev.activeTab # r.activeTab
urlChanged(prev, r) == prev.cloudinaryUrl # r.cloudinaryUrl
cacheChanged(prev, r) == prev.cachedVideoUrl # r.cachedVideoUrl
idChanged(prev, r) == prev.cloudinaryPublicId # r.cloudinaryPublicId

\* useEffect, lines 329-342 (deps: transformedVideoUrl, activeTab).
\* prev is the last render, r the render the effect closes over, n the
\* world it acts on.
EffectCacheAndReload(prev, r, n) ==
  IF ~(tChanged(prev, r) \/ tabChanged(prev, r)) THEN n
  ELSE IF ~HasUrl(transformedVideoUrl(r)) THEN n
  ELSE IF n.video.mounted /\ r.activeTab \in {"edit", "preview"}
       THEN LoadVideo([n EXCEPT !.cachedVideoUrl = transformedVideoUrl(r)],
                      transformedVideoUrl(r))
       ELSE [n EXCEPT !.cachedVideoUrl = transformedVideoUrl(r)]

\* useEffect, lines 705-725 (deps: activeTab, transformedVideoUrl,
\* cachedVideoUrl, cloudinaryUrl).  tabChangeTimeoutRef is never assigned,
\* so the clearTimeout branch does nothing.
LoadOnEditUrl(r) ==
  OrUrl(transformedVideoUrl(r), OrUrl(r.cachedVideoUrl, r.cloudinaryUrl))

EffectLoadOnEdit(prev, r, n) ==
  IF ~(tabChanged(prev, r) \/ tChanged(prev, r) \/ cacheChanged(prev, r)
       \/ urlChanged(prev, r)) THEN n
  ELSE IF r.activeTab = "edit" /\ n.video.mounted /\ HasUrl(LoadOnEditUrl(r))
       THEN LoadVideo([n EXCEPT !.videoLoadError = Null,
                                !.videoLoadAttempts = 0], LoadOnEditUrl(r))
       ELSE n

\* Variant: the effect without its hasSetTabRef guard.
EffectForceTabEveryTime(prev, r, n) ==
  IF ~(urlChanged(prev, r) \/ cacheChanged(prev, r)) THEN n
  ELSE IF HasUrl(r.cloudinaryUrl) \/ HasUrl(r.cachedVideoUrl)
       THEN [n EXCEPT !.hasSetTabRef = TRUE, !.activeTab = "edit"]
       ELSE n

\* useEffect, lines 729-734 (deps: cloudinaryUrl, cachedVideoUrl).
EffectForceTab(prev, r, n) ==
  IF ~(urlChanged(prev, r) \/ cacheChanged(prev, r)) THEN n
  ELSE IF (HasUrl(r.cloudinaryUrl) \/ HasUrl(r.cachedVideoUrl))
          /\ ~n.hasSetTabRef
       THEN [n EXCEPT !.hasSetTabRef = TRUE, !.activeTab = "edit"]
       ELSE n

\* The timers of one kind removed from a bag (clearTimeout).
ClearTimers(bag, kind) ==
  [t \in {x \in DOMAIN bag : x.kind # kind} |-> bag[t]]

\* useEffect, lines 737-756 (deps: activeTab, cloudinaryPublicId, cloudName):
\* the clean-up of the last run clears its timer, then the 3 s check is set.
EffectCheckLoaded(prev, r, n) ==
  IF ~(tabChanged(prev, r) \/ idChanged(prev, r)) THEN n
  ELSE IF /\ r.activeTab = "edit"
          /\ n.video.mounted
          /\ (HasUrl(r.cloudinaryUrl) \/ HasUrl(r.cachedVideoUrl))
          /\ Truthy(r.cloudinaryPublicId)
       THEN [n EXCEPT !.timers =
               ClearTimers(@, "check")
               (+) SetToBag({[kind |-> "check", cloudName |-> r.cloudName,
                              publicId |-> r.cloudinaryPublicId]})]
       ELSE [n EXCEPT !.timers = ClearTimers(@, "check")]

\* useEffect, lines 759-763 (deps: cloudinaryUrl, cachedVideoUrl).
EffectSeedCache(prev, r, n) ==
  IF ~(urlChanged(prev, r) \/ cacheChanged(prev, r)) THEN n
  ELSE IF HasUrl(r.cloudinaryUrl) /\ ~HasUrl(r.cachedVideoUrl)
       THEN [n EXCEPT !.cachedVideoUrl = r.cloudinaryUrl]
       ELSE n

\* The effects of the render r that follows the render prev, in the order of
\* their declaration; an effect runs when one of its dependencies changed.
\* Each effect acts on the world the one before it left (n1 .. n4).
RunEffects(prev, r, n) ==
  The({EffectSeedCache(prev, r, n4) :
        n4 \in {EffectCheckLoaded(prev, r, n3) :
          n3 \in {EffectForceTab(prev, r, n2) :
            n2 \in {EffectLoadOnEdit(prev, r, n1) :
              n1 \in {EffectCacheAndReload(prev, r, n)}}}}})

\* Render w (the last render was prev), commit it, run its effects, and
\* render again while they changed the state.
RECURSIVE Commit(_, _)
RECURSIVE Rerender(_, _)
Rerender(r, n) == IF ReactState(n) = ReactState(r) THEN n ELSE Commit(r, n)

Effects(prev, r) == The({Rerender(r, n) : n \in {RunEffects(prev, r, r)}})

Commit(prev, w) == The({Effects(prev, r) : r \in {DomCommit(prev, w)}})

\* The render before the first: nothing is mounted, every dependency differs.
Unmounted(w) ==
  [w EXCEPT !.activeTab = "<none>", !.cloudinaryPublicId = Null,
            !.cloudinaryUrl = [unmounted |-> TRUE],
            !.cachedVideoUrl = [unmounted |-> TRUE]]

\* The world after a handler changed Cur into w.
After(w) == The({Commit(prev, n) : prev \in {Cur}, n \in {w}})

-----------------------------------------------------------------------------
(* Bounds of the model and the inputs the environment draws from. *)

\* How many parameter edits, uploads, other user steps and playback errors a
\* run takes.
MaxEdits == 1
MaxUploads == 1
MaxClicks == 3
MaxErrors == 2

MaxFileSize == 100 * 1024 * 1024

NoFile == [null |-> TRUE]
\* A File: its size in bytes and its MIME type split at the "/".
Files ==
  {[size |-> sz, type |-> ty] :
     sz \in {MaxFileSize, MaxFileSize + 1},
     ty \in {<<"video", "mp4">>, <<"image", "png">>}}

\* file.type.startsWith("video/")
IsVideoType(f) == f.type[1] = "video"

ResUrl == Url(ResHost, "demo", <<>>, "v1", "clip.mp4", <<>>)
CdnUrl == Url(<<"media", "example", "com">>, "demo", <<>>, "v1", "clip.mp4", <<>>)

\* What the upload endpoint may answer with status 200.
Responses ==
  {[secure_url |-> ResUrl, public_id |-> "clip"],
   [secure_url |-> CdnUrl, public_id |-> "clips/two"]}

\* videoRef.current.duration at loadedmetadata.
Durations == {0, 6}

-----------------------------------------------------------------------------
(* lib/cloudinaryDebug: generateAlternativeUrls, index.ts:229-261. *)

\* new URL(url) succeeds
Parsable(u) == HasUrl(u) /\ Len(u.host) > 0

AlternativeQueries ==
  <<"f_mp4,vc_h264,vc_auto,q_auto:low,fl_progressive",
    "f_mp4,vc_h264,w_640,h_360,q_auto:low,fl_progressive",
    "f_mp4,vc_h264,w_480,h_270,q_auto:low,fl_progressive",
    "f_mp4,vc_h264,q_auto:low",
    "f_mp4,vc_h264,q_60,fl_progressive",
    "f_mp4,vc_h264,w_640,fl_progressive",
    "f_auto,q_auto:low",
    "f_webm,vc_vp9,q_auto:low">>

\* Variant: the query of the input is kept.
generateAlternativeUrlsKeepQuery(u) ==
  IF ~Parsable(u) THEN <<>>
  ELSE [i \in 1..Len(AlternativeQueries) |->
          WithQuery(u, AlternativeQueries[i])]

generateAlternativeUrls(u) ==
  IF ~Parsable(u) THEN <<>>
  ELSE [i \in 1..Len(AlternativeQueries) |->
          WithQuery(StripQuery(u), AlternativeQueries[i])]

-----------------------------------------------------------------------------
(* The retry URLs of the edit tab's onError, lines 989-1039. *)

\* baseUrlWithoutTransformations: with "/upload/" in the URL, the first label
\* of the host stands where the cloud name goes and the last path segment is
\* the public id; otherwise the URL without its query.
BaseUrlWithoutTransformations(u) ==
  IF u.upload
  THEN Url(ResHost, u.host[1], <<>>, "", u.file, <<>>)
  ELSE StripQuery(u)

\* formatUrls, lines 1025-1034
FormatUrls(base) ==
  <<base,
    WithQuery(base, Stamp),
    WithQuery(base, "f_mp4"),
    WithQuery(base, "f_auto"),
    WithQuery(base, "f_mp4,q_auto:low")>>

\* retryUrl, lines 1036-1039 (sequences count from 1)
RetryUrl(currentUrl, attempts) ==
  FormatUrls(BaseUrlWithoutTransformations(currentUrl))[(attempts % 5) + 1]

\* The debug panel's manual retry URL, lines 1087-1108.
ManualRetryUrl(currentUrl) ==
  WithQuery(BaseUrlWithoutTransformations(currentUrl), Retry)

-----------------------------------------------------------------------------
(* Steps of the three-tab editor. *)

Timer(t) == SetToBag({t})

\* The step act took the world to w.
Apply(world, act) ==
  \E w \in {world} :
  /\ videoFile' = w.videoFile
  /\ isUploading' = w.isUploading
  /\ uploadProgress' = w.uploadProgress
  /\ cloudinaryUrl' = w.cloudinaryUrl
  /\ cloudinaryPublicId' = w.cloudinaryPublicId
  /\ isPlaying' = w.isPlaying
  /\ videoDuration' = w.videoDuration
  /\ uploadError' = w.uploadError
  /\ debugMode' = w.debugMode
  /\ videoLoadAttempts' = w.videoLoadAttempts
  /\ videoLoadError' = w.videoLoadError
  /\ activeTab' = w.activeTab
  /\ cachedVideoUrl' = w.cachedVideoUrl
  /\ hasSetTabRef' = w.hasSetTabRef
  /\ transformations' = w.transformations
  /\ video' = w.video
  /\ timers' = w.timers
  /\ xhr' = w.xhr
  /\ probes' = w.probes
  /\ testVideos' = w.testVideos
  /\ budget' = w.budget
  /\ trace' = [act |-> act, loads |-> w.loads, opened |-> w.opened,
               streak |-> w.streak]
  /\ UNCHANGED <<props, twoTabVars, helperVars, fnVars>>

\* A step the user takes: it ends a run of automatic retries.
User(w) == [w EXCEPT !.streak = 0]

\* A user step other than an edit or an upload.
UserStep(w, act) ==
  /\ budget.clicks > 0
  /\ Apply(After(User([w EXCEPT !.budget.clicks = @ - 1])), act)

\* ---- upload tab

\* handleFileChange, lines 345-355
HandleFileChange ==
  /\ activeTab = "upload"
  /\ \E f \in Files :
       UserStep([Cur EXCEPT !.videoFile = f, !.activeTab = "upload",
                                    !.uploadError = Null], "user")

\* The X button on the chosen file, lines 841-850
RemoveFile ==
  /\ activeTab = "upload"
  /\ videoFile # NoFile
  /\ UserStep([Cur EXCEPT !.videoFile = NoFile], "user")

\* Cancel, lines 879-888
CancelUpload ==
  /\ activeTab = "upload"
  /\ videoFile # NoFile /\ ~isUploading
  /\ UserStep([Cur EXCEPT !.videoFile = NoFile, !.uploadError = Null],
              "user")

\* Variant: the request is sent without isUploading being set.
UploadToCloudinaryNotBusy(w) ==
  IF w.videoFile = NoFile \/ ~Truthy(props.cloudName) \/ ~Truthy(props.apiKey)
  THEN [w EXCEPT !.uploadError =
                   "Missing video file or Cloudinary configuration"]
  ELSE IF w.videoFile.size > MaxFileSize
  THEN [w EXCEPT !.uploadError = "File size exceeds the 100MB limit"]
  ELSE IF ~IsVideoType(w.videoFile)
  THEN [w EXCEPT !.uploadError = "Please upload a valid video file"]
  ELSE [w EXCEPT !.uploadProgress = 0,
                 !.uploadError = Null, !.xhr = "sent",
                 !.timers = @ (+) Timer([kind |-> "uploadTimeout"])]

\* uploadToCloudinary up to xhr.send, lines 414-470 and 594-612
UploadToCloudinary(w) ==
  IF w.videoFile = NoFile \/ ~Truthy(props.cloudName) \/ ~Truthy(props.apiKey)
  THEN [w EXCEPT !.uploadError =
                   "Missing video file or Cloudinary configuration"]
  ELSE IF w.videoFile.size > MaxFileSize
  THEN [w EXCEPT !.uploadError = "File size exceeds the 100MB limit"]
  ELSE IF ~IsVideoType(w.videoFile)
  THEN [w EXCEPT !.uploadError = "Please upload a valid video file"]
  ELSE [w EXCEPT !.isUploading = TRUE, !.uploadProgress = 0,
                 !.uploadError = Null, !.xhr = "sent",
                 !.timers = @ (+) Timer([kind |-> "uploadTimeout"])]

\* The Upload button, lines 889-892
ClickUpload ==
  /\ activeTab = "upload"
  /\ videoFile # NoFile /\ ~isUploading
  /\ budget.uploads > 0
  /\ Apply(After(User(UploadToCloudinary(
              [Cur EXCEPT !.budget.uploads = @ - 1]))), "upload")

\* xhr.upload.onprogress, lines 461-468
XhrProgress ==
  /\ xhr = "sent"
  /\ \E percentComplete \in {50, 100} :
       Apply(After([Cur EXCEPT !.uploadProgress = percentComplete]), "env")

\* The request ended (readyState 4): onreadystatechange clears the timeout,
\* lines 605-609.
XhrDone(w) ==
  [w EXCEPT !.xhr = "done", !.timers = ClearTimers(@, "uploadTimeout")]

\* xhr.onload with status 200 and a body with secure_url and public_id,
\* lines 471-562 up to the call of checkCloudinaryUrl, and line 582
XhrLoadSuccess ==
  /\ xhr = "sent"
  /\ \E response \in Responses :
       Apply(After(XhrDone(
               [Cur EXCEPT !.cloudinaryUrl = response.secure_url,
                           !.cloudinaryPublicId = response.public_id,
                           !.probes = @ (+) SetToBag({response.secure_url}),
                           !.isUploading = FALSE])), "uploaded")

\* xhr.onload otherwise, lines 563-582
XhrLoadFailure ==
  /\ xhr = "sent"
  /\ \E msg \in {"Upload response missing required fields",
                 "Error parsing server response", "Upload failed: "} :
       Apply(After(XhrDone([Cur EXCEPT !.uploadError = msg,
                                       !.isUploading = FALSE])),
             "uploadFailed")

\* Variant: a network error also forgets the video and shows the upload tab.
XhrErrorStartsOver ==
  /\ xhr = "sent"
  /\ Apply(After(XhrDone(
        [Cur EXCEPT !.uploadError =
           "Network error during upload. Please check your connection and try again.",
                    !.isUploading = FALSE, !.cloudinaryUrl = NoUrl,
                    !.activeTab = "upload"])), "uploadFailed")

\* xhr.onerror, lines 586-592
XhrError ==
  /\ xhr = "sent"
  /\ Apply(After(XhrDone(
        [Cur EXCEPT !.uploadError =
           "Network error during upload. Please check your connection and try again.",
                    !.isUploading = FALSE])), "uploadFailed")

\* Variant: the timeout aborts the request and leaves isUploading as it is.
UploadTimeoutKeepsUploading ==
  /\ BagIn([kind |-> "uploadTimeout"], timers)
  /\ LET w == [Cur EXCEPT !.timers = ClearTimers(@, "uploadTimeout")] IN
     IF xhr # "done"
     THEN Apply(After([w EXCEPT !.xhr = "done",
                          !.uploadError = "Upload timed out. Please try again."]),
                "uploadTimedOut")
     ELSE Apply(After(w), "env")

\* uploadTimeout, lines 595-602: xhr.abort() ends the request, no handler
\* of it runs afterwards
UploadTimeout ==
  /\ BagIn([kind |-> "uploadTimeout"], timers)
  /\ LET w == [Cur EXCEPT !.timers = ClearTimers(@, "uploadTimeout")] IN
     IF xhr # "done"
     THEN Apply(After([w EXCEPT !.xhr = "done",
                          !.uploadError = "Upload timed out. Please try again.",
                          !.isUploading = FALSE]), "uploadTimedOut")
     ELSE Apply(After(w), "env")

\* ---- after the upload: the availability probe and its timers

\* Variant: an inaccessible resource sets no timer that switches the tab.
ProbeReactionStays(w, url, status) ==
  IF status >= 200 /\ status < 300
  THEN [w EXCEPT !.cachedVideoUrl = WithQuery(url, Stamp),
                 !.timers = @ (+) Timer([kind |-> "tab", reload |-> TRUE,
                                         url |-> url])]
  ELSE [w EXCEPT !.debugMode = TRUE, !.cachedVideoUrl = url]

\* The reaction to checkCloudinaryUrl(timestampedUrl), lines 492-550.  The
\* probe never rejects (index.ts:156-164): a failed request is status 0.
ProbeReaction(w, url, status) ==
  IF status >= 200 /\ status < 300
  THEN [w EXCEPT !.cachedVideoUrl = WithQuery(url, Stamp),
                 !.videoLoadError = Null,
                 !.videoLoadAttempts = 0,
                 !.timers = @ (+) Timer([kind |-> "tab", reload |-> TRUE,
                                         url |-> url])]
  ELSE LET alternatives == generateAlternativeUrls(url) IN
       [w EXCEPT !.debugMode = TRUE,
                 !.videoLoadError = "Resource not accessible",
                 !.cachedVideoUrl = IF Len(alternatives) > 0
                                    THEN alternatives[1] ELSE url,
                 !.timers = @ (+) Timer([kind |-> "tab", reload |-> FALSE,
                                         url |-> url])]

ProbeResolved ==
  \E url \in BagToSet(probes), status \in {200, 404, 0} :
    Apply(After(ProbeReaction([Cur EXCEPT !.probes = @ (-) SetToBag({url})],
                              url, status)), "env")

\* The 100 ms timers that switch to the edit tab, lines 504-520 and 543-548
TabTimer ==
  \E t \in BagToSet(timers) :
    /\ t.kind = "tab"
    /\ LET w == [Cur EXCEPT !.timers = @ (-) Timer(t), !.activeTab = "edit"]
       IN  Apply(After(IF t.reload
                       THEN [w EXCEPT !.timers =
                               @ (+) Timer([kind |-> "reload", url |-> t.url])]
                       ELSE w), "env")

\* The 300 ms timer that reloads the element, lines 509-519
ReloadTimer ==
  \E t \in BagToSet(timers) :
    /\ t.kind = "reload"
    /\ LET w == [Cur EXCEPT !.timers = @ (-) Timer(t)] IN
       Apply(After(IF w.video.mounted THEN LoadVideo(w, t.url) ELSE w),
             "env")

\* The 3 s check of the effect of lines 737-756
CheckTimer ==
  \E t \in BagToSet(timers) :
    /\ t.kind = "check"
    /\ LET w == [Cur EXCEPT !.timers = @ (-) Timer(t)] IN
       Apply(After(IF w.video.mounted /\ w.video.phase # "ready"
                   THEN LoadVideo(w, Url(ResHost, t.cloudName, <<>>, "",
                                         t.publicId, <<>>))
                   ELSE w), "env")

\* ---- the edit tab's <video>

\* onLoadedMetadata, lines 951-954, and handleMetadataLoaded, lines 633-681,
\* up to the call of play()
VideoLoadedMetadata ==
  /\ video.mounted /\ video.phase = "loading"
  /\ \E duration \in Durations :
       Apply(After([Cur EXCEPT
               !.video.phase = "ready",
               !.video.paused = FALSE,
               !.video.playPending = TRUE,
               !.videoLoadError = Null,
               !.videoDuration = duration,
               !.transformations.trim.endSeconds =
                  IF duration = 0 THEN 10 ELSE duration,
               !.streak = 0]), "loadedmetadata")

\* playPromise.then, lines 655-666
PlayResolved ==
  /\ video.mounted /\ video.playPending
  /\ Apply(After([Cur EXCEPT !.video.playPending = FALSE,
                             !.isPlaying = TRUE,
                             !.timers = @ (+) Timer([kind |-> "autoPause"])]),
           "env")

\* playPromise.catch, lines 667-675: the browser refused to play
PlayRejected ==
  /\ video.mounted /\ video.playPending
  /\ Apply(After([Cur EXCEPT !.video.playPending = FALSE,
                             !.video.paused = TRUE]), "env")

\* The 1 s timer of lines 659-665
AutoPauseTimer ==
  /\ BagIn([kind |-> "autoPause"], timers)
  /\ LET w == [Cur EXCEPT !.timers = @ (-) Timer([kind |-> "autoPause"])] IN
     Apply(After(IF w.video.mounted
                 THEN [w EXCEPT !.video.paused = TRUE, !.isPlaying = FALSE]
                 ELSE w), "env")

\* handleVideoEnd, lines 684-686; the element pauses when playback ends
VideoEnded ==
  /\ video.mounted /\ video.phase = "ready" /\ ~video.paused
  /\ Apply(After([Cur EXCEPT !.video.paused = TRUE, !.isPlaying = FALSE]),
           "env")

\* onError, lines 955-1053, up to setTimeout
VideoErrorHandler(w, errorMessage) ==
  LET w1 == [w EXCEPT !.videoLoadError = errorMessage,
                      !.videoLoadAttempts = @ + 1]
      currentUrl == OrUrl(w.cachedVideoUrl, w.cloudinaryUrl)
  IN  IF w.videoLoadAttempts < 5 /\ HasUrl(currentUrl)
      THEN [w1 EXCEPT !.timers =
              @ (+) Timer([kind |-> "retry",
                           attempts |-> w.videoLoadAttempts,
                           currentUrl |-> currentUrl])]
      ELSE IF w.videoLoadAttempts >= 5
           THEN [w1 EXCEPT !.debugMode = TRUE]
           ELSE w1

VideoError ==
  /\ video.mounted /\ video.phase = "loading"
  /\ budget.errors > 0
  /\ \E errorMessage \in
         {"media_element_error:format error - The browser cannot play this video format"} :
       Apply(After(VideoErrorHandler(
               [Cur EXCEPT !.video.phase = "failed", !.budget.errors = @ - 1],
               errorMessage)), "error")

\* The 1 s retry timer of onError, lines 987-1049
RetryTimerBody(w, t) ==
  IF w.video.mounted
  THEN LET retryUrl == RetryUrl(t.currentUrl, t.attempts) IN
       LoadVideo([w EXCEPT !.cachedVideoUrl = retryUrl], retryUrl)
  ELSE w

RetryTimer ==
  \E t \in BagToSet(timers) :
    /\ t.kind = "retry"
    /\ Apply(After(RetryTimerBody([Cur EXCEPT !.timers = @ (-) Timer(t),
                                              !.streak = @ + 1], t)),
             "retryTimer")

\* ---- the edit tab's controls

\* togglePlayPause, lines 621-630.  play() on an element that has no usable
\* source does not start playback.
TogglePlayPause ==
  /\ activeTab = "edit" /\ video.mounted
  /\ UserStep([Cur EXCEPT
        !.video.paused = IF isPlaying THEN TRUE
                         ELSE IF video.phase \in {"loading", "ready"}
                         THEN FALSE ELSE @,
        !.isPlaying = ~isPlaying], "user")

\* window.open of a Download button: lines 1138-1154 (edit tab, disabled
\* without cachedVideoUrl) and 1803-1819 (preview tab).  NoUrl is "".
DownloadUrl(w) ==
  OrUrl(transformedVideoUrl(w), OrUrl(w.cachedVideoUrl, w.cloudinaryUrl))

Download ==
  /\ \/ activeTab = "edit" /\ HasUrl(cachedVideoUrl)
     \/ activeTab = "preview"
        /\ (HasUrl(transformedVideoUrl(Cur)) \/ HasUrl(cachedVideoUrl))
  /\ UserStep([Cur EXCEPT !.opened = DownloadUrl(Cur)], "download")

\* The Debug button, lines 1156-1164
ToggleDebug ==
  /\ activeTab = "edit"
  /\ UserStep([Cur EXCEPT !.debugMode = ~debugMode], "user")

\* onRetry of the debug panel, lines 1081-1115
ManualRetry ==
  /\ activeTab = "edit" /\ debugMode
  /\ LET currentUrl == OrUrl(cachedVideoUrl, cloudinaryUrl) IN
     UserStep(IF video.mounted /\ HasUrl(currentUrl)
              THEN LoadVideo([Cur EXCEPT
                                !.cachedVideoUrl = ManualRetryUrl(currentUrl),
                                !.videoLoadAttempts = 0],
                             ManualRetryUrl(currentUrl))
              ELSE Cur, "user")

\* setTransformations of a control of the edit tab (lines 1183-1646): the
\* controls are rendered with the edit tab only.
EditTo(t, act) ==
  /\ activeTab = "edit"
  /\ budget.edits > 0
  /\ t # transformations
  /\ Apply(After(User([Cur EXCEPT !.transformations = t,
                                  !.budget.edits = @ - 1])), act)

\* Border width slider, colour inputs and radius slider, lines 1183-1246
SetBorderWidth ==
  \E v \in {0, 8} :
    EditTo([transformations EXCEPT !.border.width = v], "editBorder")

SetBorderColor ==
  \E v \in {"#ff0000"} :
    EditTo([transformations EXCEPT !.border.color = v], "editBorder")

SetBorderRadius ==
  \E v \in {10} :
    EditTo([transformations EXCEPT !.border.radius = v], "editBorder")

\* Resize mode select and the width and height inputs, lines 1253-1304;
\* parseInt(value) || 1920: typed 0 stands for every text that is no number
SetResizeMode ==
  \E v \in {"fill", "scale", "crop"} :
    EditTo([transformations EXCEPT !.resize.mode = v], "editResize")

SetResizeWidth ==
  \E typed \in {0, 640} :
    EditTo([transformations EXCEPT
              !.resize.width = IF typed = 0 THEN 1920 ELSE typed],
           "editResize")

SetResizeHeight ==
  \E typed \in {0, 360} :
    EditTo([transformations EXCEPT
              !.resize.height = IF typed = 0 THEN 1080 ELSE typed],
           "editResize")

\* Adjustment sliders and their Reset buttons, lines 1322-1457
SetBrightness ==
  \E v \in {-50, 0, 50} :
    EditTo([transformations EXCEPT !.adjust.brightness = v], "editAdjust")

SetContrast ==
  \E v \in {0, 50} :
    EditTo([transformations EXCEPT !.adjust.contrast = v], "editAdjust")

SetSaturation ==
  \E v \in {0, 50} :
    EditTo([transformations EXCEPT !.adjust.saturation = v], "editAdjust")

SetSepia ==
  \E v \in {0, 40} :
    EditTo([transformations EXCEPT !.adjust.sepia = v], "editAdjust")

SetGrayscale ==
  \E v \in BOOLEAN :
    EditTo([transformations EXCEPT !.adjust.grayscale = v], "editAdjust")

\* Text overlay switch and, enabled by it, its fields, lines 1470-1576
SetTextEnabled ==
  \E v \in BOOLEAN :
    EditTo([transformations EXCEPT !.text.enabled = v], "editText")

SetTextField ==
  /\ transformations.text.enabled
  /\ \/ \E v \in {"", "Hi"} :
          EditTo([transformations EXCEPT !.text.content = v], "editText")
     \/ \E v \in {"north", "center"} :
          EditTo([transformations EXCEPT !.text.position = v], "editText")
     \/ \E v \in {"#000000"} :
          EditTo([transformations EXCEPT !.text.color = v], "editText")
     \/ \E typed \in {0, 24} :
          EditTo([transformations EXCEPT
                    !.text.size = IF typed = 0 THEN 40 ELSE typed],
                 "editText")
     \/ \E v \in {"Courier New"} :
          EditTo([transformations EXCEPT !.text.fontFamily = v], "editText")

\* Trim switch and range slider, shown when videoDuration > 0,
\* lines 1596-1646
SetTrimEnabled ==
  /\ videoDuration > 0
  /\ \E v \in BOOLEAN :
       EditTo([transformations EXCEPT !.trim.enabled = v], "editTrim")

SetTrimRange ==
  /\ videoDuration > 0
  /\ transformations.trim.enabled
  /\ \E start \in {0, 2}, end \in {2, 4, videoDuration} :
       /\ start <= end /\ end <= videoDuration
       /\ EditTo([transformations EXCEPT !.trim.startSeconds = start,
                                         !.trim.endSeconds = end],
                 "editTrim")

\* ---- navigation

\* A tab trigger, lines 768-777: Edit and Preview are disabled without
\* cloudinaryUrl
ClickTab ==
  \E tab \in {"upload", "edit", "preview"} :
    /\ tab # activeTab
    /\ tab = "upload" \/ HasUrl(cloudinaryUrl)
    /\ UserStep([Cur EXCEPT !.activeTab = tab], "user")

\* Back to Upload and Preview Result of the edit tab (lines 1663-1670), Back
\* to Edit of the preview tab (lines 1823-1825)
ClickNavButton ==
  \E tab \in {"upload", "edit", "preview"} :
    /\ \/ activeTab = "edit" /\ tab \in {"upload", "preview"}
       \/ activeTab = "preview" /\ tab = "edit"
    /\ UserStep([Cur EXCEPT !.activeTab = tab], "user")

\* Start New Project, lines 1827-1837
StartNewProject ==
  /\ activeTab = "preview"
  /\ UserStep([Cur EXCEPT !.videoFile = NoFile, !.cloudinaryUrl = NoUrl,
                          !.cloudinaryPublicId = Null,
                          !.activeTab = "upload"], "user")

\* onError of the preview tab's <video>, lines 1701-1742.  Its timer rewrites
\* the src of that element only, which no state of the component reads.
PreviewVideoError ==
  /\ activeTab = "preview"
  /\ HasUrl(JsxSrc(Cur))
  /\ \E errorMessage \in {"Unknown video loading error"} :
       Apply(After([Cur EXCEPT !.videoLoadError = errorMessage,
                               !.debugMode = TRUE]), "env")

-----------------------------------------------------------------------------
(* The three-tab editor: construction and next-state relation. *)

\* The props of CloudinaryVideoEditor, lines 110-115
PropsSet ==
  {[initialVideoUrl |-> u, initialPublicId |-> id, cloudName |-> "demo",
    apiKey |-> "key"] :
     u \in {NoUrl, ResUrl, CdnUrl}, id \in {Null, "clip"}}

\* useState initial values, lines 116-170
InitialWorld(p, b) ==
  [videoFile |-> NoFile, isUploading |-> FALSE, uploadProgress |-> 0,
   cloudinaryUrl |-> p.initialVideoUrl,
   cloudinaryPublicId |-> IF Truthy(p.initialPublicId)
                          THEN p.initialPublicId ELSE Null,
   isPlaying |-> FALSE, videoDuration |-> 0, uploadError |-> Null,
   debugMode |-> FALSE, videoLoadAttempts |-> 0, videoLoadError |-> Null,
   activeTab |-> "upload", cachedVideoUrl |-> NoUrl, hasSetTabRef |-> FALSE,
   transformations |-> DefaultTransformations, cloudName |-> p.cloudName,
   video |-> NoVideo, timers |-> EmptyBag, xhr |-> "idle",
   probes |-> EmptyBag, testVideos |-> <<>>,
   budget |-> b, streak |-> 0, loads |-> <<>>, opened |-> NoUrl]

\* The component after its first render and the effects of it.
Mounted(p, b) ==
  The({Commit(Unmounted(w), w) : w \in {InitialWorld(p, b)}})

\* What a run may still take: parameter edits, uploads, other user steps and
\* playback errors.
Budget(e, u, c, x) == [edits |-> e, uploads |-> u, clicks |-> c, errors |-> x]

EditorIs(p, w) ==
  /\ props = p
  /\ videoFile = w.videoFile
  /\ isUploading = w.isUploading
  /\ uploadProgress = w.uploadProgress
  /\ cloudinaryUrl = w.cloudinaryUrl
  /\ cloudinaryPublicId = w.cloudinaryPublicId
  /\ isPlaying = w.isPlaying
  /\ videoDuration = w.videoDuration
  /\ uploadError = w.uploadError
  /\ debugMode = w.debugMode
  /\ videoLoadAttempts = w.videoLoadAttempts
  /\ videoLoadError = w.videoLoadError
  /\ activeTab = w.activeTab
  /\ cachedVideoUrl = w.cachedVideoUrl
  /\ hasSetTabRef = w.hasSetTabRef
  /\ transformations = w.transformations
  /\ video = w.video
  /\ timers = w.timers
  /\ xhr = w.xhr
  /\ probes = w.probes
  /\ testVideos = w.testVideos
  /\ budget = w.budget
  /\ trace = [act |-> "mount", loads |-> w.loads, opened |-> NoUrl,
              streak |-> 0]

EditorInitFor(p, b) == \E w \in {Mounted(p, b)} : EditorIs(p, w)

EditorInit ==
  \E p \in PropsSet :
    EditorInitFor(p, Budget(MaxEdits, MaxUploads, MaxClicks, MaxErrors))

\* The other components and the function inputs, at rest.
TwoTabIdle ==
  /\ ttProps = [initialVideoUrl |-> ResUrl, cloudinaryPublicId |-> Null,
                cloudName |-> ""]
  /\ ttTransformations = TtDefaultTransformations
  /\ ttActiveTab = "border"
  /\ ttVideoUrl = ResUrl
  /\ ttTrace = [act |-> "mount", load |-> FALSE, href |-> NoUrl]

HelperIdle ==
  /\ hVideoFile = NoFile
  /\ hIsUploading = FALSE
  /\ hUploadProgress = 0
  /\ hUploadError = Null
  /\ hCloudName = "demo"
  /\ hRequests = [xhr |-> "idle", pending |-> <<>>]
  /\ hCalls = [act |-> "mount", calls |-> <<>>]
  /\ hBudget = [uploads |-> 0, clicks |-> 0]

NoResult == [pending |-> TRUE]
FnIdle == fnIn = NoResult /\ fnOut = NoResult

Init == EditorInit /\ TwoTabIdle /\ HelperIdle /\ FnIdle

Next ==
  \/ HandleFileChange \/ RemoveFile \/ CancelUpload \/ ClickUpload
  \/ XhrProgress \/ XhrLoadSuccess \/ XhrLoadFailure \/ XhrError
  \/ UploadTimeout
  \/ ProbeResolved \/ TabTimer \/ ReloadTimer \/ CheckTimer
  \/ VideoLoadedMetadata \/ PlayResolved \/ PlayRejected \/ AutoPauseTimer
  \/ VideoEnded \/ VideoError \/ RetryTimer
  \/ TogglePlayPause \/ Download \/ ToggleDebug \/ ManualRetry
  \/ SetBorderWidth \/ SetBorderColor \/ SetBorderRadius
  \/ SetResizeMode \/ SetResizeWidth \/ SetResizeHeight
  \/ SetBrightness \/ SetContrast \/ SetSaturation \/ SetSepia
  \/ SetGrayscale \/ SetTextEnabled \/ SetTextField
  \/ SetTrimEnabled \/ SetTrimRange
  \/ ClickTab \/ ClickNavButton \/ StartNewProject \/ PreviewVideoError

Spec == Init /\ [][Next]_vars

-----------------------------------------------------------------------------
(* Editing an uploaded video: the editor is mounted with a video (as
   VideoEditorStoryboard mounts it once the upload helper has succeeded),
   and the user edits the parameters, changes tabs and downloads while the
   element loads and the 3 s check fires. *)

EditEdits == 2
EditClicks == 1

VideoProps ==
  {p \in PropsSet : HasUrl(p.initialVideoUrl)}

InitEdit ==
  /\ \E p \in VideoProps : EditorInitFor(p, Budget(EditEdits, 0, EditClicks, 0))
  /\ TwoTabIdle /\ HelperIdle /\ FnIdle

NextEdit ==
  \/ SetBorderWidth \/ SetBorderColor \/ SetBorderRadius
  \/ SetResizeMode \/ SetResizeWidth \/ SetResizeHeight
  \/ SetBrightness \/ SetContrast \/ SetSaturation \/ SetSepia
  \/ SetGrayscale \/ SetTextEnabled \/ SetTextField
  \/ SetTrimEnabled \/ SetTrimRange
  \/ ClickTab \/ ClickNavButton \/ Download
  \/ CheckTimer \/ VideoLoadedMetadata

SpecEdit == InitEdit /\ [][NextEdit]_vars

-----------------------------------------------------------------------------
(* Claims about editing an uploaded video, under SpecEdit. *)

\* A video is uploaded: cloudinaryUrl and the public id are both set.
Uploaded == HasUrl(cloudinaryUrl) /\ Truthy(cloudinaryPublicId)

\* C1: after edits made while a video is uploaded, the URL a Download
\* button opens carries the transformation actions getTransformedVideoUrl
\* builds for the current transformation state.
C1_DownloadOpensTransformedUrl ==
  (trace.act = "download" /\ Uploaded
   /\ transformations # DefaultTransformations)
  => /\ HasUrl(trace.opened)
     /\ trace.opened.actions = getTransformedVideoUrl(Cur).actions

\* C2: while the edit or preview tab is active and a video is uploaded, a
\* change of a non-presentational parameter (resize, adjustment, text, trim)
\* that changes the built URL reloads the edit tab's media element from the
\* URL built for the new value.
C2_ParamEditReloads ==
  [][(/\ trace'.act \in {"editResize", "editAdjust", "editText", "editTrim"}
      /\ activeTab' \in {"edit", "preview"}
      /\ HasUrl(cloudinaryUrl') /\ Truthy(cloudinaryPublicId')
      /\ getTransformedVideoUrl(Cur)' # getTransformedVideoUrl(Cur))
     => /\ trace'.loads # <<>>
        /\ trace'.loads[Len(trace'.loads)] = getTransformedVideoUrl(Cur)'
        /\ video'.src = getTransformedVideoUrl(Cur)']_vars

-----------------------------------------------------------------------------
(* Playback errors: the editor is mounted with a video whose loads fail or
   succeed, the retry and check timers fire, and the user may open the debug
   panel and retry by hand. *)

RetryErrors == 7
RetryClicks == 2

InitRetry ==
  /\ \E p \in VideoProps : EditorInitFor(p, Budget(0, 0, RetryClicks, RetryErrors))
  /\ TwoTabIdle /\ HelperIdle /\ FnIdle

NextRetry ==
  \/ VideoError \/ RetryTimer \/ CheckTimer \/ VideoLoadedMetadata
  \/ ToggleDebug \/ ManualRetry

SpecRetry == InitRetry /\ [][NextRetry]_vars

\* What "the untransformed resource URL" of the uploaded video may stand
\* for: cloudinaryUrl without its query, the base the retry code computes
\* from it, and the delivery URL of its file under its own cloud name.
ResourceBases ==
  IF HasUrl(cloudinaryUrl)
  THEN {StripQuery(cloudinaryUrl),
        BaseUrlWithoutTransformations(cloudinaryUrl),
        Url(ResHost, props.cloudName, <<>>, "", cloudinaryUrl.file, <<>>)}
  ELSE {}

\* C3: for an uploaded res.cloudinary.com video, the k-th automatic retry in
\* a row (k = 1..5, no successful load and no user step in between) loads
\* the k-th entry of the fixed list built on the untransformed resource URL.
C3_RetryLoadsKthEntry ==
  (/\ trace.act = "retryTimer" /\ trace.streak \in 1..5
   /\ IncludesResHost(cloudinaryUrl))
  => \E base \in ResourceBases :
       \E i \in DOMAIN trace.loads :
         trace.loads[i] = FormatUrls(base)[trace.streak]

\* C4: while every load fails, no more than 5 automatic retries run in a
\* row.
C4_AtMostFiveRetries == trace.streak <= 5

-----------------------------------------------------------------------------
(* The two-tab editor, part_000, as a component: its handlers and the reload
   effect of lines 108-129. *)

\* urlToUse of the reload effect and of handleTabChange, lines 112-122 and
\* 138-148
TtUrlToUse(p, t) ==
  IF ~TtHasBorder(t) /\ ~TtHasAdjustments(t)
  THEN p.initialVideoUrl
  ELSE TtTransformedVideoUrl(p, t)

\* The state after a handler left the transformations t and the tab tab:
\* the effect of lines 108-129 (or, on a tab change, lines 134-153) sets
\* videoUrl and loads the element when its source differs from urlToUse.
TtApply(t, tab, act, href) ==
  /\ ttTransformations' = t
  /\ ttActiveTab' = tab
  /\ ttVideoUrl' = TtUrlToUse(ttProps, t)
  /\ ttTrace' = [act |-> act, load |-> ttVideoUrl # TtUrlToUse(ttProps, t),
                 href |-> href]
  /\ UNCHANGED <<ttProps, editorVars, helperVars, fnVars>>

\* handleBorderChange, lines 156-167: the width slider (0..20), the colour
\* input and the style select of the Border tab
TtHandleBorderChange ==
  /\ ttActiveTab = "border"
  /\ \/ \E v \in {0, 5, 20} :
          TtApply([ttTransformations EXCEPT !.border.width = v],
                  ttActiveTab, "border", NoUrl)
     \/ \E v \in {"white", "#ff0000"} :
          TtApply([ttTransformations EXCEPT !.border.color = v],
                  ttActiveTab, "border", NoUrl)
     \/ \E v \in {"solid", "dashed"} :
          TtApply([ttTransformations EXCEPT !.border.style = v],
                  ttActiveTab, "border", NoUrl)

\* handleAdjustmentChange, lines 169-180: the sliders of the Adjustments tab
\* (-100..100 in steps of 5; sepia 0..100)
TtHandleAdjustmentChange ==
  /\ ttActiveTab = "adjustments"
  /\ \/ \E v \in {-50, 0, 50} :
          TtApply([ttTransformations EXCEPT !.adjustments.brightness = v],
                  ttActiveTab, "adjustment", NoUrl)
     \/ \E v \in {0, 50} :
          TtApply([ttTransformations EXCEPT !.adjustments.contrast = v],
                  ttActiveTab, "adjustment", NoUrl)
     \/ \E v \in {-100, 0} :
          TtApply([ttTransformations EXCEPT !.adjustments.saturation = v],
                  ttActiveTab, "adjustment", NoUrl)
     \/ \E v \in {0, 40} :
          TtApply([ttTransformations EXCEPT !.adjustments.sepia = v],
                  ttActiveTab, "adjustment", NoUrl)

\* handleTabChange, lines 131-154
TtHandleTabChange ==
  \E value \in {"border", "adjustments"} :
    /\ value # ttActiveTab
    /\ TtApply(ttTransformations, value, "tab", NoUrl)

\* handleDownload, lines 182-190: the href of the anchor it clicks
TtHandleDownload ==
  TtApply(ttTransformations, ttActiveTab, "download",
          TtTransformedVideoUrl(ttProps, ttTransformations))

\* handleReset, lines 192-206
TtHandleReset ==
  TtApply(TtDefaultTransformations, ttActiveTab, "reset", NoUrl)

\* The props of the two-tab editor, lines 8-13: a public id and a cloud name
\* that are present, empty or (the id) null.
TtPropsSet ==
  {[initialVideoUrl |-> ResUrl, cloudinaryPublicId |-> id, cloudName |-> c] :
     id \in {Null, "", "clip"}, c \in {"", "demo"}}

\* useState initial values, lines 36-50; the first run of the effect loads
\* the built URL when it differs from initialVideoUrl.
TtInitFor(p) ==
  /\ ttProps = p
  /\ ttTransformations = TtDefaultTransformations
  /\ ttActiveTab = "border"
  /\ ttVideoUrl = TtUrlToUse(p, TtDefaultTransformations)
  /\ ttTrace = [act |-> "mount",
                load |-> p.initialVideoUrl
                         # TtUrlToUse(p, TtDefaultTransformations),
                href |-> NoUrl]

\* The three-tab editor at rest, before any video.
EditorIdle ==
  EditorInitFor([initialVideoUrl |-> NoUrl, initialPublicId |-> Null,
                 cloudName |-> "demo", apiKey |-> "key"],
                Budget(0, 0, 0, 0))

InitTwoTab ==
  /\ \E p \in TtPropsSet : TtInitFor(p)
  /\ EditorIdle /\ HelperIdle /\ FnIdle

NextTwoTab ==
  \/ TtHandleBorderChange \/ TtHandleAdjustmentChange \/ TtHandleTabChange
  \/ TtHandleDownload \/ TtHandleReset

SpecTwoTab == InitTwoTab /\ [][NextTwoTab]_vars

-----------------------------------------------------------------------------
(* Claims about the two-tab editor's built URL, under SpecTwoTab. *)

\* The URL the two-tab editor has built in this state (its useMemo).
TtBuilt == TtTransformedVideoUrl(ttProps, ttTransformations)

\* The parts C5 names, in its order, each with the condition it comes with.
C5_Candidates ==
  <<[on |-> ttTransformations.border.width > 0,
     part |-> [op |-> "bo", width |-> ttTransformations.border.width,
               style |-> ttTransformations.border.style,
               color |-> StripHash(ttTransformations.border.color)]],
    [on |-> ttTransformations.adjustments.brightness # 0,
     part |-> [op |-> "e_brightness",
               level |-> ttTransformations.adjustments.brightness]],
    [on |-> ttTransformations.adjustments.contrast # 0,
     part |-> [op |-> "e_contrast",
               level |-> ttTransformations.adjustments.contrast]],
    [on |-> ttTransformations.adjustments.saturation # 0,
     part |-> [op |-> "e_saturation",
               level |-> ttTransformations.adjustments.saturation]],
    [on |-> ttTransformations.adjustments.sepia # 0,
     part |-> [op |-> "e_sepia",
               level |-> ttTransformations.adjustments.sepia]]>>

C5_IsOn(c) == c.on

C5_Parts ==
  [i \in 1..Len(SelectSeq(C5_Candidates, C5_IsOn)) |->
     SelectSeq(C5_Candidates, C5_IsOn)[i].part]

\* C5: with a non-empty public id and cloud name and at least one
\* non-neutral parameter, the built URL is
\* https://res.cloudinary.com/<cloudName>/video/upload/<parts>/<publicId>,
\* <parts> being, in this order, the border part iff width > 0 and the
\* brightness, contrast, saturation and sepia parts, each iff non-zero.
C5_TwoTabUrlShape ==
  (/\ Truthy(ttProps.cloudinaryPublicId) /\ Truthy(ttProps.cloudName)
   /\ Len(C5_Parts) > 0)
  => TtBuilt = [host |-> <<"res", "cloudinary", "com">>,
                cloud |-> ttProps.cloudName, upload |-> TRUE,
                actions |-> C5_Parts, version |-> "",
                file |-> ttProps.cloudinaryPublicId, query |-> <<>>]

\* A URL with the border part and three adjustment parts has been built and
\* downloaded.
C5_Witness ==
  /\ ttTrace.act = "download" /\ ttTrace.href = TtBuilt
  /\ Truthy(ttProps.cloudinaryPublicId) /\ Truthy(ttProps.cloudName)
  /\ Len(TtBuilt.actions) = 4
  /\ ttTransformations.adjustments.contrast = 0

\* C7: the built URL is initialVideoUrl whenever the public id or the cloud
\* name is missing, or the border width and the four adjustments are all 0.
C7_TwoTabUrlUnchanged ==
  (\/ ~Truthy(ttProps.cloudinaryPublicId)
   \/ ~Truthy(ttProps.cloudName)
   \/ /\ ttTransformations.border.width = 0
      /\ ttTransformations.adjustments.brightness = 0
      /\ ttTransformations.adjustments.contrast = 0
      /\ ttTransformations.adjustments.saturation = 0
      /\ ttTransformations.adjustments.sepia = 0)
  => TtBuilt = ttProps.initialVideoUrl

\* The border was set to 0 with every adjustment at 0, public id and cloud
\* name present, and the element went back to initialVideoUrl.
C7_Witness ==
  /\ ttTrace.act = "border" /\ ttTrace.load
  /\ Truthy(ttProps.cloudinaryPublicId) /\ Truthy(ttProps.cloudName)
  /\ ttTransformations.border.width = 0
  /\ ~TtHasAdjustments(ttTransformations)
  /\ ttVideoUrl = ttProps.initialVideoUrl

-----------------------------------------------------------------------------
(* getTransformedVideoUrl as a function of the render it belongs to: the
   inputs are drawn from the values the controls can produce. *)

BuilderTransformations ==
  {[border |-> [width |-> bw, color |-> "#ff0000", radius |-> br],
    resize |-> [width |-> 640, height |-> 360, mode |-> m],
    adjust |-> [brightness |-> b, contrast |-> c, saturation |-> sa,
                sepia |-> se, grayscale |-> g],
    text |-> [enabled |-> tx[1], content |-> tx[2], position |-> "north",
              color |-> "#000000", size |-> 24, fontFamily |-> "Arial"],
    trim |-> [enabled |-> tr[1], startSeconds |-> tr[2],
              endSeconds |-> tr[3]]] :
     bw \in {0, 8}, br \in {0, 10}, m \in {"fill", "scale", "crop"},
     b \in {0, 50}, c \in {0, -20}, sa \in {0, 30}, se \in {0, 40},
     g \in BOOLEAN,
     tx \in {<<FALSE, "Hi">>, <<TRUE, "">>, <<TRUE, "Hi">>},
     tr \in {<<FALSE, 0, 10>>, <<TRUE, 0, 10>>, <<TRUE, 2, 4>>,
             <<TRUE, 4, 2>>}}

BuilderInputs ==
  {[cloudinaryPublicId |-> id, cloudinaryUrl |-> u, cloudName |-> "demo",
    videoDuration |-> d, transformations |-> t] :
     id \in {Null, "clip"}, u \in {NoUrl, ResUrl}, d \in Durations,
     t \in BuilderTransformations}

InitBuilder ==
  /\ fnIn \in BuilderInputs
  /\ fnOut = NoResult
  /\ EditorIdle /\ TwoTabIdle /\ HelperIdle

\* A call of getTransformedVideoUrl in the render fnIn.
GetTransformedVideoUrl ==
  /\ fnOut = NoResult
  /\ fnOut' = [url |-> getTransformedVideoUrl(fnIn)]
  /\ UNCHANGED <<fnIn, editorVars, twoTabVars, helperVars>>

NextBuilder == GetTransformedVideoUrl

SpecBuilder == InitBuilder /\ [][NextBuilder]_vars

\* The actions C6 names, in its order, each with the condition it comes
\* with.
C6_Candidates ==
  LET t == fnIn.transformations
      d == fnIn.videoDuration
      start == IF t.trim.startSeconds > 0 THEN t.trim.startSeconds ELSE 0
      end == IF t.trim.endSeconds < d THEN t.trim.endSeconds ELSE d
  IN <<[on |-> t.border.width > 0,
        part |-> [op |-> "bo", width |-> t.border.width, style |-> "solid",
                  color |-> StripHash(t.border.color)]],
       [on |-> t.border.radius > 0,
        part |-> [op |-> "r", radius |-> t.border.radius]],
       [on |-> t.resize.mode = "fill",
        part |-> [op |-> "c_fill", width |-> t.resize.width,
                  height |-> t.resize.height]],
       [on |-> t.resize.mode = "scale",
        part |-> [op |-> "c_scale", width |-> t.resize.width,
                  height |-> t.resize.height]],
       [on |-> t.resize.mode = "crop",
        part |-> [op |-> "c_crop", width |-> t.resize.width,
                  height |-> t.resize.height]],
       [on |-> t.adjust.brightness # 0,
        part |-> [op |-> "e_brightness", level |-> t.adjust.brightness]],
       [on |-> t.adjust.contrast # 0,
        part |-> [op |-> "e_contrast", level |-> t.adjust.contrast]],
       [on |-> t.adjust.saturation # 0,
        part |-> [op |-> "e_saturation", level |-> t.adjust.saturation]],
       [on |-> t.adjust.sepia # 0,
        part |-> [op |-> "e_sepia", level |-> t.adjust.sepia]],
       [on |-> t.adjust.grayscale, part |-> [op |-> "e_grayscale"]],
       [on |-> t.text.enabled /\ t.text.content # "",
        part |-> [op |-> "l_text", font |-> t.text.fontFamily,
                  size |-> t.text.size, weight |-> "bold",
                  color |-> StripHash(t.text.color),
                  content |-> t.text.content, gravity |-> t.text.position]],
       [on |-> t.trim.enabled /\ d > 0 /\ start < end,
        part |-> [op |-> "trim", so |-> start, eo |-> end]],
       [on |-> TRUE, part |-> [op |-> "f", format |-> "mp4"]],
       [on |-> TRUE, part |-> [op |-> "q", level |-> "auto"]]>>

C6_IsOn(c) == c.on

C6_Actions ==
  [i \in 1..Len(SelectSeq(C6_Candidates, C6_IsOn)) |->
     SelectSeq(C6_Candidates, C6_IsOn)[i].part]

\* C6: with a public id, getTransformedVideoUrl applies border (iff width >
\* 0), round corners (iff radius > 0), one resize of the mode's kind,
\* brightness, contrast, saturation, sepia (each iff non-zero), grayscale
\* (iff set), the text overlay (iff enabled with content), the trim (iff
\* enabled and valid), format mp4 and quality auto, in this order; with a
\* null public id it returns cloudinaryUrl.
C6_BuilderOrder ==
  fnOut # NoResult
  => IF fnIn.cloudinaryPublicId = Null
     THEN fnOut.url = fnIn.cloudinaryUrl
     ELSE /\ fnOut.url.actions = C6_Actions
          /\ fnOut.url.file = fnIn.cloudinaryPublicId
          /\ fnOut.url.cloud = fnIn.cloudName

\* A URL was built with every one of the fourteen kinds of action that can
\* occur together: twelve actions.
C6_Witness ==
  /\ fnOut # NoResult
  /\ fnIn.cloudinaryPublicId = "clip"
  /\ Len(fnOut.url.actions) = 12

-----------------------------------------------------------------------------
(* Uploading: a fresh editor, or one that was mounted with a video and whose
   user starts a new project; a file is chosen and uploaded, the request
   ends one way or another, the availability probe answers and the timers
   fire. *)

UploadUploads == 1
UploadClicks == 3

UploadProps ==
  {p \in PropsSet :
     \/ ~HasUrl(p.initialVideoUrl) /\ p.initialPublicId = Null
     \/ p.initialVideoUrl = ResUrl /\ p.initialPublicId = "clip"}

InitUpload ==
  /\ \E p \in UploadProps :
       EditorInitFor(p, Budget(0, UploadUploads, UploadClicks, 0))
  /\ TwoTabIdle /\ HelperIdle /\ FnIdle

NextUpload ==
  \/ HandleFileChange \/ RemoveFile \/ CancelUpload \/ ClickUpload
  \/ XhrProgress \/ XhrLoadSuccess \/ XhrLoadFailure \/ XhrError
  \/ UploadTimeout
  \/ ProbeResolved \/ TabTimer \/ ReloadTimer \/ CheckTimer
  \/ VideoLoadedMetadata
  \/ ClickTab \/ ClickNavButton \/ StartNewProject

SpecUpload == InitUpload /\ [][NextUpload]_vars

\* The browser runs a pending timer callback and a settled promise's
\* reaction: none of them stays pending forever.
FairUpload ==
  /\ SpecUpload
  /\ WF_vars(ProbeResolved)
  /\ WF_vars(TabTimer)
  /\ WF_vars(ReloadTimer)
  /\ WF_vars(CheckTimer)
  /\ WF_vars(UploadTimeout)

\* C9: a status-200 upload response with secure_url and public_id sets
\* cloudinaryUrl and the public id to the response's values, and from then
\* on, with the timers and the probe's reaction running, the active tab
\* becomes "edit" whatever the probe answers.
C9_UploadLeadsToEdit ==
  /\ [][trace'.act = "uploaded"
        => \E r \in Responses :
             /\ cloudinaryUrl' = r.secure_url
             /\ cloudinaryPublicId' = r.public_id
             /\ BagIn(r.secure_url, probes')]_vars
  /\ (trace.act = "uploaded") ~> (activeTab = "edit")

\* An upload into an editor that had shown a video before (so the one-shot
\* switch of lines 729-734 was spent) has succeeded, the probe has answered
\* with a failure, and the 100 ms timer has switched to the edit tab.
C9_Witness ==
  /\ HasUrl(props.initialVideoUrl)
  /\ xhr = "done" /\ HasUrl(cloudinaryUrl) /\ videoFile # NoFile
  /\ probes = EmptyBag /\ debugMode
  /\ activeTab = "edit"
  /\ trace.act = "env"

-----------------------------------------------------------------------------
(* The upload helper, CloudinaryUploadHelper.tsx. *)

\* The helper's state as one record; calls collects the callbacks of the
\* parent (onUploadSuccess, onUploadError) a step invokes.
HCur ==
  [videoFile |-> hVideoFile, isUploading |-> hIsUploading,
   uploadProgress |-> hUploadProgress, uploadError |-> hUploadError,
   xhr |-> hRequests.xhr, pending |-> hRequests.pending, calls |-> <<>>,
   budget |-> hBudget]

\* setUploadError(errorMsg); if (onUploadError) onUploadError(errorMsg)
HFail(h, errorMsg) ==
  [h EXCEPT !.uploadError = errorMsg,
            !.calls = Append(@, [callback |-> "onUploadError",
                                 error |-> errorMsg])]

\* The step act took the helper to h.
HApply(helper, act) ==
  \E h \in {helper} :
    /\ hVideoFile' = h.videoFile
    /\ hIsUploading' = h.isUploading
    /\ hUploadProgress' = h.uploadProgress
    /\ hUploadError' = h.uploadError
    /\ hRequests' = [xhr |-> h.xhr, pending |-> h.pending]
    /\ hCalls' = [act |-> act, calls |-> h.calls]
    /\ hBudget' = h.budget
    /\ UNCHANGED <<hCloudName, editorVars, twoTabVars, fnVars>>

\* handleFileChange, lines 26-36
HelperHandleFileChange ==
  /\ hBudget.clicks > 0
  /\ \E f \in Files :
       HApply([HCur EXCEPT !.videoFile = f, !.uploadError = Null,
                           !.budget.clicks = @ - 1], "fileChange")

\* The X button on the chosen file, lines 257-270
HelperRemoveFile ==
  /\ hVideoFile # NoFile
  /\ hBudget.clicks > 0
  /\ HApply([HCur EXCEPT !.videoFile = NoFile, !.budget.clicks = @ - 1],
            "removeFile")

\* Variant: a file of exactly 100 MB is refused too.
HelperUploadToCloudinaryStrict(h) ==
  IF h.videoFile = NoFile \/ ~Truthy(hCloudName)
  THEN HFail(h, "Missing video file or Cloudinary configuration")
  ELSE IF h.videoFile.size >= MaxFileSize
  THEN HFail(h, "File size exceeds the 100MB limit")
  ELSE [h EXCEPT !.isUploading = TRUE, !.uploadProgress = 0,
                 !.uploadError = Null, !.xhr = "sent"]

\* uploadToCloudinary up to xhr.send, lines 38-186
HelperUploadToCloudinary(h) ==
  IF h.videoFile = NoFile \/ ~Truthy(hCloudName)
  THEN HFail(h, "Missing video file or Cloudinary configuration")
  ELSE IF h.videoFile.size > MaxFileSize
  THEN HFail(h, "File size exceeds the 100MB limit")
  ELSE [h EXCEPT !.isUploading = TRUE, !.uploadProgress = 0,
                 !.uploadError = Null, !.xhr = "sent"]

\* The Upload to Cloudinary button, lines 294-298
HelperClickUpload ==
  /\ hVideoFile # NoFile /\ ~hIsUploading
  /\ hBudget.uploads > 0
  /\ HApply(HelperUploadToCloudinary([HCur EXCEPT !.budget.uploads = @ - 1]),
            "upload")

\* xhr.upload.onprogress, lines 85-92
HelperXhrProgress ==
  /\ hRequests.xhr = "sent"
  /\ \E percentComplete \in {50, 100} :
       HApply([HCur EXCEPT !.uploadProgress = percentComplete], "progress")

\* The response of status 200 with secure_url and public_id: xhr.onload,
\* lines 96-123 and 147, sets the 1 s timer
HelperXhrLoadSuccess ==
  /\ hRequests.xhr = "sent"
  /\ \E response \in Responses :
       HApply([HCur EXCEPT !.xhr = "done", !.pending = Append(@, response),
                           !.isUploading = FALSE], "uploaded")

\* The 1 s timer of lines 110-123
HelperSuccessTimer ==
  /\ hRequests.pending # <<>>
  /\ HApply([HCur EXCEPT
        !.pending = Tail(@),
        !.calls = Append(@, [callback |-> "onUploadSuccess",
                             url |-> hRequests.pending[1].secure_url,
                             publicId |-> hRequests.pending[1].public_id])],
        "successTimer")

\* The response of status 200 whose body does not parse or lacks a field:
\* xhr.onload, lines 96-129 and 147
HelperXhrLoadInvalid ==
  /\ hRequests.xhr = "sent"
  /\ HApply([HFail(HCur, "Error processing the server response")
               EXCEPT !.xhr = "done", !.isUploading = FALSE], "uploadFailed")

\* A response of another status: readystatechange (lines 160-181) and then
\* load (lines 130-147) each report the failure
HelperXhrLoadFailure ==
  /\ hRequests.xhr = "sent"
  /\ HApply([HFail(HFail(HCur, "Upload failed: Bad Request"),
                   "Upload failed: Bad Request")
               EXCEPT !.xhr = "done", !.isUploading = FALSE], "uploadFailed")

\* A network error: readystatechange with status 0 (lines 160-181) and then
\* error (lines 151-157)
HelperXhrError ==
  /\ hRequests.xhr = "sent"
  /\ HApply([HFail(HFail(HCur, "Upload failed: Bad Request"),
                   "Network error during upload")
               EXCEPT !.xhr = "done", !.isUploading = FALSE], "uploadFailed")

-----------------------------------------------------------------------------
(* Validation before the upload, in either upload path: the page shows the
   three-tab editor without a video, or the upload helper; the cloud name
   and the API key may be missing.  Requests that are sent fail or, in the
   helper, succeed. *)

ValidateUploads == 2
ValidateClicks == 2

ValidateProps ==
  {[initialVideoUrl |-> NoUrl, initialPublicId |-> Null, cloudName |-> c,
    apiKey |-> k] : c \in {"demo", ""}, k \in {"key", ""}}

HelperInitFor(c, b) ==
  /\ hVideoFile = NoFile
  /\ hIsUploading = FALSE
  /\ hUploadProgress = 0
  /\ hUploadError = Null
  /\ hCloudName = c
  /\ hRequests = [xhr |-> "idle", pending |-> <<>>]
  /\ hCalls = [act |-> "mount", calls |-> <<>>]
  /\ hBudget = b

InitValidate ==
  /\ \E p \in ValidateProps :
       EditorInitFor(p, Budget(0, ValidateUploads, ValidateClicks, 0))
  /\ \E c \in {"demo", Null} :
       HelperInitFor(c, [uploads |-> ValidateUploads,
                         clicks |-> ValidateClicks])
  /\ TwoTabIdle /\ FnIdle

NextValidate ==
  \/ HandleFileChange \/ RemoveFile \/ ClickUpload
  \/ XhrProgress \/ XhrLoadFailure \/ XhrError \/ UploadTimeout
  \/ HelperHandleFileChange \/ HelperRemoveFile \/ HelperClickUpload
  \/ HelperXhrProgress \/ HelperXhrLoadSuccess \/ HelperSuccessTimer
  \/ HelperXhrLoadInvalid \/ HelperXhrLoadFailure \/ HelperXhrError

SpecValidate == InitValidate /\ [][NextValidate]_vars

\* The step is a click on the editor's Upload button / the helper's.
EditorUploadStep == trace'.act = "upload" /\ budget'.uploads < budget.uploads
HelperUploadStep ==
  hCalls'.act = "upload" /\ hBudget'.uploads < hBudget.uploads

SizeLimitMessage == "File size exceeds the 100MB limit"

\* The editor / the helper refused the file for its size and did nothing
\* else: no request, no timer, isUploading and the progress as before.
EditorRejectsForSize ==
  /\ uploadError' = SizeLimitMessage
  /\ xhr' = xhr /\ xhr' # "sent" /\ timers' = timers
  /\ isUploading' = isUploading /\ uploadProgress' = uploadProgress
HelperRejectsForSize ==
  /\ hUploadError' = SizeLimitMessage
  /\ hRequests' = hRequests /\ hRequests'.xhr # "sent"
  /\ hIsUploading' = hIsUploading /\ hUploadProgress' = hUploadProgress

\* The size check let the file through: the helper sends the request, the
\* editor goes on to the type check.
EditorPassesSizeCheck ==
  /\ uploadError' # SizeLimitMessage
  /\ IsVideoType(videoFile) => xhr' = "sent" /\ isUploading'
HelperPassesSizeCheck ==
  /\ hUploadError' # SizeLimitMessage
  /\ hRequests'.xhr = "sent" /\ hIsUploading'

\* C10 as stated: in both upload paths a file larger than 100*1024*1024
\* bytes is rejected with 'File size exceeds the 100MB limit', no request is
\* sent, isUploading and the upload progress are left unchanged, and a file
\* of exactly 100*1024*1024 bytes passes the size check.
C10_SizeLimit ==
  [][/\ EditorUploadStep =>
          /\ videoFile.size > MaxFileSize => EditorRejectsForSize
          /\ videoFile.size = MaxFileSize => uploadError' # SizeLimitMessage
     /\ HelperUploadStep =>
          /\ hVideoFile.size > MaxFileSize => HelperRejectsForSize
          /\ hVideoFile.size = MaxFileSize =>
               hUploadError' # SizeLimitMessage]_vars

\* C10 where the configuration is present (the cloud name, and in the editor
\* the API key too): a file larger than 100*1024*1024 bytes is rejected with
\* 'File size exceeds the 100MB limit', no request is sent, isUploading and
\* the upload progress are left unchanged; a file of exactly 100*1024*1024
\* bytes passes the size check.
C10_SizeLimitWhenConfigured ==
  [][/\ EditorUploadStep /\ Truthy(props.cloudName) /\ Truthy(props.apiKey) =>
          /\ videoFile.size > MaxFileSize => EditorRejectsForSize
          /\ videoFile.size = MaxFileSize => EditorPassesSizeCheck
     /\ HelperUploadStep /\ Truthy(hCloudName) =>
          /\ hVideoFile.size > MaxFileSize => HelperRejectsForSize
          /\ hVideoFile.size = MaxFileSize => HelperPassesSizeCheck]_vars

\* Both paths have just refused a file of 100 MB + 1 byte, each after an
\* earlier upload that got to 50% and failed.
C10_Witness ==
  /\ trace.act = "upload" /\ videoFile # NoFile
  /\ videoFile.size > MaxFileSize
  /\ uploadError = SizeLimitMessage /\ uploadProgress = 50 /\ xhr = "done"
  /\ hCalls.act = "upload" /\ hVideoFile # NoFile
  /\ hVideoFile.size > MaxFileSize
  /\ hUploadError = SizeLimitMessage /\ hUploadProgress = 50
  /\ hRequests.xhr = "done"
  /\ hCalls.calls = <<[callback |-> "onUploadError",
                       error |-> SizeLimitMessage]>>

-----------------------------------------------------------------------------
(* Claims about the validation of the file's type, under SpecValidate. *)

\* C11: in both upload paths a file whose MIME type does not start with
\* 'video/' is never sent: the click on Upload sets an upload error and
\* opens no request.
C11_NonVideoNeverSent ==
  [][/\ EditorUploadStep /\ ~IsVideoType(videoFile) =>
          uploadError' # Null /\ xhr' = xhr /\ xhr' # "sent"
     /\ HelperUploadStep /\ ~IsVideoType(hVideoFile) =>
          /\ hUploadError' # Null
          /\ hRequests' = hRequests /\ hRequests'.xhr # "sent"]_vars

-----------------------------------------------------------------------------
(* generateAlternativeUrls as a function of its argument: absolute URLs of
   two hosts with and without transformation, version and query (one
   "?..." or two, as the retry code writes them), and texts that are no
   absolute URL. *)

AlternativeInputs ==
  {[Url(h, "demo", a, v, f, q) EXCEPT !.upload = up] :
     h \in {ResHost, <<"media", "example", "com">>, <<>>},
     a \in {<<>>, <<FormatAction>>}, v \in {"v1", ""},
     f \in {"clip.mp4", "clips/two"},
     q \in {<<>>, <<Stamp>>, <<Stamp, "f_mp4">>}, up \in BOOLEAN}

InitAlternatives ==
  /\ fnIn \in AlternativeInputs
  /\ fnOut = NoResult
  /\ EditorIdle /\ TwoTabIdle /\ HelperIdle

\* A call generateAlternativeUrls(fnIn).
GenerateAlternativeUrls ==
  /\ fnOut = NoResult
  /\ fnOut' = [urls |-> generateAlternativeUrls(fnIn)]
  /\ UNCHANGED <<fnIn, editorVars, twoTabVars, helperVars>>

NextAlternatives == GenerateAlternativeUrls

SpecAlternatives == InitAlternatives /\ [][NextAlternatives]_vars

\* The eight query strings, in the order C12 fixes.
C12_FixedQueries ==
  <<"f_mp4,vc_h264,vc_auto,q_auto:low,fl_progressive",
    "f_mp4,vc_h264,w_640,h_360,q_auto:low,fl_progressive",
    "f_mp4,vc_h264,w_480,h_270,q_auto:low,fl_progressive",
    "f_mp4,vc_h264,q_auto:low",
    "f_mp4,vc_h264,q_60,fl_progressive",
    "f_mp4,vc_h264,w_640,fl_progressive",
    "f_auto,q_auto:low",
    "f_webm,vc_vp9,q_auto:low">>

\* C12: generateAlternativeUrls returns the empty list for a URL that cannot
\* be parsed, and for a parsable URL exactly eight URLs, the i-th being the
\* input without its query followed by the i-th fixed query string; nothing
\* but the input decides the result.
C12_AlternativeUrls ==
  fnOut # NoResult =>
    IF fnIn.host = <<>>
    THEN fnOut.urls = <<>>
    ELSE /\ Len(fnOut.urls) = 8
         /\ \A i \in 1..8 :
              fnOut.urls[i] = [fnIn EXCEPT !.query = <<C12_FixedQueries[i]>>]

\* The function was called on an absolute URL that had two query parts and
\* answered with eight URLs.
C12_Witness ==
  /\ fnOut # NoResult
  /\ fnIn.host # <<>> /\ Len(fnIn.query) = 2
  /\ Len(fnOut.urls) = 8

-----------------------------------------------------------------------------
(* lib/cloudinaryDebug: checkCloudinaryUrl, index.ts:123-165, as a function
   of the URL and of what fetch does with the HEAD request: it answers with
   a response of some status and headers, or it rejects with an Error. *)

\* key.toLowerCase() on the header names that occur.
ToLowerCase(key) ==
  CASE key = "Content-Type" -> "content-type"
    [] key = "X-Cld-Error" -> "x-cld-error"
    [] OTHER -> key

\* The headers of a response: pairs of name and value, no name twice.
HeaderSets ==
  SUBSET {<<"Content-Type", "video/mp4">>,
          <<"X-Cld-Error", "Resource not found">>,
          <<"server", "cloudinary">>}

FetchOutcomes ==
  {[kind |-> "response", status |-> st[1], statusText |-> st[2],
    headers |-> hs] :
     st \in {<<200, "OK">>, <<404, "Not Found">>, <<401, "Unauthorized">>,
             <<500, "">>},
     hs \in HeaderSets}
  \cup {[kind |-> "error", message |-> msg] :
          msg \in {"Failed to fetch", "The operation was aborted", ""}}

ProbeInputs ==
  {[url |-> u, outcome |-> o] :
     u \in {ResUrl, CdnUrl, WithQuery(ResUrl, Stamp)}, o \in FetchOutcomes}

\* The headers object of lines 139-143.
ExtractHeaders(hs) ==
  [name \in {ToLowerCase(h[1]) : h \in hs} |->
     (CHOOSE h \in hs : ToLowerCase(h[1]) = name)[2]]

\* headers["x-cld-error"]: undefined when the header is absent.
CloudinaryError(headers) ==
  IF "x-cld-error" \in DOMAIN headers THEN headers["x-cld-error"] ELSE Null

\* How the promise of an async function settles.
Fulfilled(v) == [state |-> "fulfilled", value |-> v]
Rejected(e) == [state |-> "rejected", reason |-> e]

\* Variant: no catch around the request.
checkCloudinaryUrlNoCatch(req) ==
  IF req.outcome.kind = "response"
  THEN Fulfilled([status |-> req.outcome.status,
                  statusText |-> req.outcome.statusText,
                  url |-> req.url,
                  headers |-> ExtractHeaders(req.outcome.headers),
                  cloudinaryError |->
                    CloudinaryError(ExtractHeaders(req.outcome.headers))])
  ELSE Rejected(req.outcome.message)

checkCloudinaryUrl(req) ==
  IF req.outcome.kind = "response"
  THEN Fulfilled([status |-> req.outcome.status,
                  statusText |-> req.outcome.statusText,
                  url |-> req.url,
                  headers |-> ExtractHeaders(req.outcome.headers),
                  cloudinaryError |->
                    CloudinaryError(ExtractHeaders(req.outcome.headers))])
  ELSE Fulfilled([status |-> 0,
                  statusText |-> IF req.outcome.message # ""
                                 THEN req.outcome.message
                                 ELSE "Network error",
                  url |-> req.url,
                  headers |-> <<>>,
                  cloudinaryError |-> Null])

InitProbe ==
  /\ fnIn \in ProbeInputs
  /\ fnOut = NoResult
  /\ EditorIdle /\ TwoTabIdle /\ HelperIdle

\* A call checkCloudinaryUrl(fnIn.url) that has settled.
CheckCloudinaryUrl ==
  /\ fnOut = NoResult
  /\ fnOut' = checkCloudinaryUrl(fnIn)
  /\ UNCHANGED <<fnIn, editorVars, twoTabVars, helperVars>>

NextProbe == CheckCloudinaryUrl

SpecProbe == InitProbe /\ [][NextProbe]_vars

\* What C13 says of a completed request: status and status text of the
\* response, each header under its lower-cased name, the x-cld-error header
\* as cloudinaryError.
C13_OfResponse ==
  /\ fnOut.state = "fulfilled"
  /\ fnOut.value.status = fnIn.outcome.status
  /\ fnOut.value.statusText = fnIn.outcome.statusText
  /\ DOMAIN fnOut.value.headers \subseteq
       {"content-type", "x-cld-error", "server"}
  /\ \A h \in fnIn.outcome.headers :
       /\ h[1] = "Content-Type" => fnOut.value.headers["content-type"] = h[2]
       /\ h[1] = "X-Cld-Error" =>
            /\ fnOut.value.headers["x-cld-error"] = h[2]
            /\ fnOut.value.cloudinaryError = h[2]
       /\ h[1] = "server" => fnOut.value.headers["server"] = h[2]
  /\ Cardinality(DOMAIN fnOut.value.headers) =
       Cardinality(fnIn.outcome.headers)
  /\ (\A h \in fnIn.outcome.headers : h[1] # "X-Cld-Error") =>
       fnOut.value.cloudinaryError = Null

\* C13 as stated: checkCloudinaryUrl always resolves; of a completed request
\* it returns status, status text, lower-cased headers and x-cld-error; of a
\* failed one status 0, the error message as status text and empty headers.
C13_ProbeResolves ==
  fnOut # NoResult =>
    IF fnIn.outcome.kind = "response"
    THEN C13_OfResponse
    ELSE /\ fnOut.state = "fulfilled"
         /\ fnOut.value.status = 0
         /\ fnOut.value.statusText = fnIn.outcome.message
         /\ fnOut.value.headers = <<>>

\* C13 with the status text of a failure made exact: checkCloudinaryUrl
\* always resolves; of a completed request it returns status, status text,
\* lower-cased headers and x-cld-error; of a failed one status 0, empty
\* headers and, as status text, the error message or, when that is empty,
\* "Network error".
C13_ProbeResolvesOrNetworkError ==
  fnOut # NoResult =>
    IF fnIn.outcome.kind = "response"
    THEN C13_OfResponse
    ELSE /\ fnOut.state = "fulfilled"
         /\ fnOut.value.status = 0
         /\ fnIn.outcome.message # "" =>
              fnOut.value.statusText = fnIn.outcome.message
         /\ fnIn.outcome.message = "" =>
              fnOut.value.statusText = "Network error"
         /\ fnOut.value.headers = <<>>

\* The request failed and the call has resolved with status 0.
C13_Witness ==
  /\ fnOut # NoResult
  /\ fnIn.outcome.kind = "error" /\ fnIn.outcome.message = "Failed to fetch"
  /\ fnOut.state = "fulfilled" /\ fnOut.value.status = 0

-----------------------------------------------------------------------------
(* Claims about the callbacks of the upload helper, under SpecValidate. *)

\* The callbacks of the parent the step has invoked.
HelperCallbacks(name) ==
  SelectSeq(hCalls'.calls, LAMBDA c : c.callback = name)

\* C14: for each request the helper sent, exactly one of onUploadSuccess
\* and onUploadError is invoked, exactly once: the step that ends the
\* request either invokes onUploadError once and sets no timer, or invokes
\* nothing and sets the one timer that invokes onUploadSuccess once;
\* onUploadSuccess gets the secure_url and public_id of a status-200
\* response.
C14_OneCallbackPerRequest ==
  [][/\ hRequests.xhr = "sent" /\ hRequests'.xhr = "done" =>
          \/ /\ Len(hCalls'.calls) = 1
             /\ Len(HelperCallbacks("onUploadError")) = 1
             /\ hRequests'.pending = hRequests.pending
          \/ /\ hCalls'.calls = <<>>
             /\ Len(hRequests'.pending) = Len(hRequests.pending) + 1
     /\ Len(hRequests'.pending) < Len(hRequests.pending) =>
          /\ Len(hRequests'.pending) = Len(hRequests.pending) - 1
          /\ Len(hCalls'.calls) = 1
          /\ \E r \in Responses :
               hCalls'.calls[1] = [callback |-> "onUploadSuccess",
                                   url |-> r.secure_url,
                                   publicId |-> r.public_id]]_vars

-----------------------------------------------------------------------------
(* Claims about uploads in the three-tab editor, under FairUpload. *)

\* C15: in every reachable state of the three-tab editor the active tab
\* being 'edit' or 'preview' implies cloudinaryUrl is non-null.
C15_TabNeedsUrl ==
  activeTab \in {"edit", "preview"} => HasUrl(cloudinaryUrl)

\* C16: every upload started in the three-tab editor eventually ends with
\* isUploading = false: whatever ends the request (load with any status,
\* network error, timeout) sets isUploading to false, the timeout aborts the
\* request and sets 'Upload timed out. Please try again.', and with the
\* timeout running no request stays in flight forever.
C16_UploadEnds ==
  /\ [][xhr = "sent" /\ xhr' # "sent" => xhr' = "done" /\ ~isUploading']_vars
  /\ [][trace'.act = "uploadTimedOut" /\ trace' # trace =>
          /\ xhr = "sent" /\ xhr' = "done"
          /\ uploadError' = "Upload timed out. Please try again."
          /\ ~isUploading']_vars
  /\ (xhr = "sent") ~> (xhr = "done" /\ ~isUploading)

\* An upload that got to 50% was ended by the timeout.
C16_Witness ==
  /\ trace.act = "uploadTimedOut"
  /\ xhr = "done" /\ ~isUploading /\ uploadProgress = 50
  /\ uploadError = "Upload timed out. Please try again."

\* C17: when an upload of the three-tab editor ends with a non-200 status,
\* an unparseable body, a body lacking secure_url or public_id, a network
\* error or a timeout, uploadError is set and cloudinaryUrl, the public id,
\* cachedVideoUrl and the active tab are left unchanged.
C17_FailedUploadKeepsVideo ==
  [][xhr = "sent" /\ xhr' = "done" /\ trace'.act # "uploaded" =>
       /\ uploadError' # Null
       /\ UNCHANGED <<cloudinaryUrl, cloudinaryPublicId, cachedVideoUrl,
                      activeTab>>]_vars

\* The upload of a second video failed while the edit tab showed the first.
C17_Witness ==
  /\ trace.act = "uploadFailed" /\ xhr = "done"
  /\ uploadError = "Upload response missing required fields"
  /\ cloudinaryUrl = ResUrl /\ cloudinaryPublicId = "clip"
  /\ HasUrl(cachedVideoUrl) /\ activeTab = "edit"

-----------------------------------------------------------------------------
(* Claims about requests in flight, under SpecValidate. *)

\* C18: in each upload component, while a request is in flight isUploading
\* is true, and no click on the Upload button gets through (the button is
\* disabled), so a component never starts a request while one is in flight.
C18_OneRequestInFlight ==
  /\ [](xhr = "sent" => isUploading)
  /\ [](hRequests.xhr = "sent" => hIsUploading)
  /\ [][EditorUploadStep => xhr # "sent" /\ ~isUploading]_vars
  /\ [][HelperUploadStep => hRequests.xhr # "sent" /\ ~hIsUploading]_vars

\* Each component has its second request in flight, after the first ended.
C18_Witness ==
  /\ xhr = "sent" /\ isUploading /\ budget.uploads = 0
  /\ uploadProgress = 50
  /\ hRequests.xhr = "sent" /\ hIsUploading /\ hBudget.uploads = 0
  /\ hUploadProgress = 50

-----------------------------------------------------------------------------
(* Drag and drop on the upload tab, handleDrop, lines 363-411.  Each dropped
   video file gets a test <video> element of its own: phase is "loading",
   "metadata" (loadedmetadata fired), "data" (loadeddata fired) or "failed"
   (error fired); handlers tells whether onloadedmetadata and onerror are
   still set; timer whether the 5 s timeout is pending. *)

DropClicks == 2

\* What a drop can carry: a file, or no file at all (dragged text).
DroppedFiles == Files \cup {NoFile}

\* testVideo.onloadedmetadata, lines 371-378
DropAccepted(w, file) ==
  [w EXCEPT !.videoFile = file, !.activeTab = "upload",
            !.uploadError = Null]

\* handleDrop, lines 363-411
HandleDrop ==
  /\ activeTab = "upload"
  /\ \E file \in DroppedFiles :
       UserStep(
         IF file # NoFile /\ IsVideoType(file)
         THEN [Cur EXCEPT !.testVideos =
                 Append(@, [file |-> file, phase |-> "loading",
                            handlers |-> TRUE, timer |-> TRUE])]
         ELSE [Cur EXCEPT !.uploadError = "Please drop a valid video file"],
         "drop")

\* loadedmetadata at a test element: onloadedmetadata, if still set
TestLoadedMetadata ==
  \E i \in DOMAIN testVideos :
    /\ testVideos[i].phase = "loading"
    /\ Apply(After(
         IF testVideos[i].handlers
         THEN DropAccepted([Cur EXCEPT !.testVideos[i].phase = "metadata"],
                           testVideos[i].file)
         ELSE [Cur EXCEPT !.testVideos[i].phase = "metadata"]), "env")

\* loadeddata at a test element: onloadeddata, lines 400-403, clears the
\* timeout and calls testVideo.onloadedmetadata(), which throws when the
\* timeout has set it to null
TestLoadedData ==
  \E i \in DOMAIN testVideos :
    /\ testVideos[i].phase = "metadata"
    /\ Apply(After(
         IF testVideos[i].handlers
         THEN DropAccepted([Cur EXCEPT !.testVideos[i].phase = "data",
                                       !.testVideos[i].timer = FALSE],
                           testVideos[i].file)
         ELSE [Cur EXCEPT !.testVideos[i].phase = "data",
                          !.testVideos[i].timer = FALSE]), "env")

\* error at a test element, while it fetches or decodes: onerror, lines
\* 380-387, if still set
TestError ==
  \E i \in DOMAIN testVideos :
    /\ testVideos[i].phase \in {"loading", "metadata"}
    /\ Apply(After(
         IF testVideos[i].handlers
         THEN [Cur EXCEPT
                 !.testVideos[i].phase = "failed",
                 !.uploadError =
                   "The dropped file appears to be corrupted or is not a valid video format"]
         ELSE [Cur EXCEPT !.testVideos[i].phase = "failed"]), "env")

\* The 5 s timeout of lines 390-398
TestTimeout ==
  \E i \in DOMAIN testVideos :
    /\ testVideos[i].timer
    /\ Apply(After(
         [Cur EXCEPT
            !.testVideos[i].timer = FALSE,
            !.testVideos[i].handlers = FALSE,
            !.uploadError =
              "Unable to validate the video file. It may be corrupted or in an unsupported format."]),
         "dropTimeout")

InitDrop ==
  /\ EditorInitFor([initialVideoUrl |-> NoUrl, initialPublicId |-> Null,
                    cloudName |-> "demo", apiKey |-> "key"],
                   Budget(0, 0, DropClicks, 0))
  /\ TwoTabIdle /\ HelperIdle /\ FnIdle

NextDrop ==
  \/ HandleDrop \/ TestLoadedMetadata \/ TestLoadedData \/ TestError
  \/ TestTimeout

SpecDrop == InitDrop /\ [][NextDrop]_vars

\* The validation of a dropped file has settled: no timeout is pending and
\* no event of the element can call a handler any more.
DropSettled(tv) ==
  /\ ~tv.timer
  /\ tv.phase \in {"data", "failed"} \/ ~tv.handlers

\* C19: once the validation of a dropped file has settled, exactly one
\* outcome holds: accepted (videoFile is the dropped file and uploadError is
\* null) or rejected (uploadError is set and videoFile is what it was before
\* the drop); stated for the first drop into an editor without a file.
C19_OneDropOutcome ==
  Len(testVideos) = 1 /\ budget.clicks = DropClicks - 1
    /\ DropSettled(testVideos[1]) =>
      \/ videoFile = testVideos[1].file /\ uploadError = Null
      \/ uploadError # Null /\ videoFile = NoFile

-----------------------------------------------------------------------------
(* Playback on the edit tab: an editor mounted with a video; the user
   toggles play and pause and moves the brightness slider, the element
   loads, plays automatically for a second, ends, and is reloaded by the
   effects and by the 3 s check. *)

PlayEdits == 1
PlayClicks == 2

InitPlay ==
  /\ \E p \in VideoProps :
       EditorInitFor(p, Budget(PlayEdits, 0, PlayClicks, 0))
  /\ TwoTabIdle /\ HelperIdle /\ FnIdle

NextPlay ==
  \/ TogglePlayPause \/ VideoLoadedMetadata \/ PlayResolved \/ PlayRejected
  \/ AutoPauseTimer \/ VideoEnded \/ SetBrightness \/ CheckTimer

SpecPlay == InitPlay /\ [][NextPlay]_vars

\* C20: the isPlaying flag is true exactly when the media element is
\* playing (it exists and is not paused), in every state in which no
\* play() promise is waiting to settle.
C20_IsPlayingMatchesElement ==
  ~video.playPending => (isPlaying <=> video.mounted /\ ~video.paused)

-----------------------------------------------------------------------------
(* The frame of loadedmetadata, under SpecEdit. *)

\* The trim end time is one the user chose on the range slider: below the
\* duration of the video, which neither the initial value nor
\* handleMetadataLoaded produces.
TrimEndChosen ==
  /\ videoDuration > 0
  /\ transformations.trim.endSeconds < videoDuration

\* C21: a loadedmetadata event of the edit-tab video leaves every edit
\* parameter the user has set unchanged: a trim end time chosen by the user
\* is still the trim end time after the element has reloaded.
C21_MetadataKeepsParams ==
  [][(trace'.act = "loadedmetadata" /\ TrimEndChosen)
       => transformations' = transformations]_vars

-----------------------------------------------------------------------------
(* The trim of getTransformedVideoUrl, under SpecBuilder. *)

IsTrim(a) == a.op = "trim"

\* C22: a trim action emitted by getTransformedVideoUrl has the bounds
\* start = max(0, startSeconds) and end = min(videoDuration, endSeconds),
\* with 0 <= start < end <= videoDuration; at most one is emitted, and none
\* when trim is disabled, when videoDuration is 0, or when the clamped start
\* is not below the clamped end.
C22_TrimBounds ==
  (fnOut # NoResult /\ fnIn.cloudinaryPublicId # Null)
  => \E trims \in {SelectSeq(fnOut.url.actions, IsTrim)},
        d \in {fnIn.videoDuration},
        start \in {Max(0, fnIn.transformations.trim.startSeconds)},
        end \in {Min(fnIn.videoDuration,
                     fnIn.transformations.trim.endSeconds)} :
       /\ Len(trims) <= 1
       /\ \A i \in 1..Len(trims) :
            /\ trims[i].so = start /\ trims[i].eo = end
            /\ 0 <= start /\ start < end /\ end <= d
       /\ (~fnIn.transformations.trim.enabled \/ d = 0 \/ ~(start < end))
            => Len(trims) = 0

\* A URL was built with a trim whose end time was clamped to the duration
\* of the video.
C22_Witness ==
  /\ fnOut # NoResult
  /\ fnIn.cloudinaryPublicId # Null
  /\ fnIn.transformations.trim.endSeconds > fnIn.videoDuration
  /\ \E i \in 1..Len(fnOut.url.actions) :
       /\ IsTrim(fnOut.url.actions[i])
       /\ fnOut.url.actions[i].eo = fnIn.videoDuration

-----------------------------------------------------------------------------
(* The effect that forces the edit tab, under FairUpload. *)

\* The step fires one of the 100 ms timers that switch to the edit tab.
TabTimerFired ==
  \E t \in BagToSet(timers) :
    t.kind = "tab" /\ CopiesIn(t, timers') < CopiesIn(t, timers)

\* C23: the effect that forces the active tab to 'edit' fires at most once
\* per editor instance: hasSetTabRef, once set, stays set; and once it is
\* set, a step that changes cloudinaryUrl or cachedVideoUrl moves the user to
\* the edit tab only by a click or by one of the tab timers, never by this
\* effect.
C23_ForceTabOnce ==
  /\ [][hasSetTabRef => hasSetTabRef']_vars
  /\ [][(/\ hasSetTabRef
         /\ cloudinaryUrl' # cloudinaryUrl \/ cachedVideoUrl' # cachedVideoUrl
         /\ activeTab # "edit" /\ activeTab' = "edit")
        => (trace'.act = "user" \/ TabTimerFired)]_vars

\* The effect has fired, the user is back on the upload tab and a new upload
\* has just set cloudinaryUrl: the tab is still the upload tab.
C23_Witness ==
  /\ hasSetTabRef
  /\ trace.act = "uploaded"
  /\ HasUrl(cloudinaryUrl)
  /\ activeTab = "upload"

=============================================================================
